---------------------------- MODULE Spec2Model ----------------------------
(***************************************************************************)
(* Model of the horse64 program object (src/horse64/bytecode.c) and of the *)
(* global-storage pass of the scope resolver                               *)
(* (src/horse64/compiler/scoperesolver.c).                                 *)
(*                                                                         *)
(* Tables that the C code indexes from 0 are sequences here; entry i of    *)
(* the C array is element i+1 of the sequence (operator At).  A count      *)
(* field of the C struct (func_count, classes_count, ...) is the length    *)
(* of the sequence.  Array slots beyond the count, which the code          *)
(* reallocs and memsets before it can fail, are not observable and are     *)
(* not part of the state.                                                  *)
(***************************************************************************)
EXTENDS Integers, Sequences, FiniteSets, TLC

VARIABLES
    program,      \* the h64program aggregate, debug symbols included
    call,         \* the last API call made on the program and its result
    registered,   \* history: member registrations that returned success
    failures,     \* history: number of API calls that have failed
    rs,           \* state of one scoperesolver_ResolveAST run
    ir,           \* state of one identifier resolution pass over a file
    vm            \* state of one vmexec_ExecuteProgram run

vars == <<program, call, registered, failures, rs, ir, vm>>

---------------------------------------------------------------------------
(* Bounds of the model *)

\* number of functions that may be registered
MaxFuncs == 2
\* number of classes that may be added
MaxClasses == 2
\* number of classes in the specification of the member lookups
MaxMemberClasses == 1
\* number of variables that may be registered on one class
MaxVars == 2
\* number of global variables that may be added
MaxGlobals == 1
\* number of entries the fileuri table may grow to
MaxFileUris == 2
\* number of API calls that may fail in one behaviour
MaxFailures == 1
\* bytecode.h (not among the sources): number of buckets of a class's
\* member hashmap, scaled down so that bucket collisions happen
H64CLASS_HASH_SIZE == 2
\* bytecode.h (not among the sources): ceiling of the method slots and
\* offset of the variable slots, scaled down so that the ceiling is hit
H64CLASS_MAX_METHODS == 2

NULL == "<NULL>"
\* a NULL fileuri argument (file URIs are lists of components)
NoUri == <<>>

\* member names
Names == {"a", "b", "c"}
\* module paths passed to the registration functions (NULL: builtin module)
ModulePaths == {NULL, "m"}
\* file URIs as lists of path components; "." components are redundant
FileUris == {<<"x">>, <<".", "x">>, <<"y">>}

---------------------------------------------------------------------------
(* Helpers for C data *)

\* entry i of a 0-based C array held as a sequence
At(s, i) == s[i + 1]

\* C's % on int64_t truncates toward zero: (-1) % n = -1
CRem(a, b) == IF a >= 0 THEN a % b ELSE 0 - ((0 - a) % b)

\* hash.c (not among the sources): the maps are finite maps key -> number
EmptyMap == [k \in {} |-> 0]

hash_MapSet(m, k, v) ==
    [x \in (DOMAIN m) \cup {k} |-> IF x = k THEN v ELSE m[x]]

hash_MapUnset(m, k) ==
    [x \in (DOMAIN m) \ {k} |-> m[x]]

hash_MapHas(m, k) == k \in DOMAIN m

\* uri.c (not among the sources): normalisation drops "." components; it is
\* deterministic and idempotent
RECURSIVE uri_Normalize(_)
uri_Normalize(u) ==
    IF u = <<>> THEN <<>>
    ELSE IF Head(u) = "." THEN uri_Normalize(Tail(u))
    ELSE <<Head(u)>> \o uri_Normalize(Tail(u))

---------------------------------------------------------------------------
(* Debug symbols (debugsymbols.c is not among the sources; the tables are  *)
(* those bytecode.c reads and writes)                                      *)

\* a fresh h64modulesymbols record
ModuleSymbols(path) ==
    [module_path |-> path,
     func_symbols |-> <<>>, func_name_to_entry |-> EmptyMap,
     classes_symbols |-> <<>>, class_name_to_entry |-> EmptyMap,
     globalvar_symbols |-> <<>>, globalvar_name_to_entry |-> EmptyMap]

\* index of x in the 0-based table s, -1 when absent
IndexOf(s, x) ==
    IF \E i \in 1..Len(s) : s[i] = x
    THEN (CHOOSE i \in 1..Len(s) : s[i] = x) - 1
    ELSE -1

\* member-name interning: the id of an interned name is its index; with
\* create set a new name is appended, which can fail for lack of memory
h64debugsymbols_MemberNameToMemberNameId(p, name, create, oom) ==
    LET found == IndexOf(p.member_name, name)
    IN  IF found >= 0 THEN [p |-> p, id |-> found]
        ELSE IF create = 0 \/ oom THEN [p |-> p, id |-> -1]
        ELSE [p |-> [p EXCEPT !.member_name = Append(@, name)],
              id |-> Len(p.member_name)]

\* the builtin module is module 0, made at construction
h64debugsymbols_GetBuiltinModule(p) == 0

\* module lookup by path, creating the record when absent (create = 1)
h64debugsymbols_GetModule(p, module_path, oom) ==
    LET found == IF \E i \in 1..Len(p.modules) :
                        p.modules[i].module_path = module_path
                 THEN (CHOOSE i \in 1..Len(p.modules) :
                        p.modules[i].module_path = module_path) - 1
                 ELSE -1
    IN  IF found >= 0 THEN [p |-> p, index |-> found]
        ELSE IF oom THEN [p |-> p, index |-> -1]
        ELSE [p |-> [p EXCEPT !.modules = Append(@, ModuleSymbols(module_path))],
              index |-> Len(p.modules)]

\* the msymbols selection shared by the three registration functions
ModuleFor(p, module_path, oom) ==
    IF module_path # NULL
    THEN h64debugsymbols_GetModule(p, module_path, oom)
    ELSE [p |-> p, index |-> h64debugsymbols_GetBuiltinModule(p)]

---------------------------------------------------------------------------
(* Program object *)

\* h64program_New before the corelib registrations, which go through the
\* registration functions below
h64program_New ==
    [func |-> <<>>, globalvar |-> <<>>, classes |-> <<>>,
     main_func_index |-> -1,
     fileuri |-> <<>>,
     mainfileuri_index |-> -1,
     mainfile_module_path |-> NULL,
     member_name |-> <<>>,
     modules |-> <<ModuleSymbols(NULL)>>,
     func_id_to_module_symbols_index |-> EmptyMap,
     func_id_to_module_symbols_func_subindex |-> EmptyMap,
     class_id_to_module_symbols_index |-> EmptyMap,
     class_id_to_module_symbols_class_subindex |-> EmptyMap]

func_count(p) == Len(p.func)
classes_count(p) == Len(p.classes)
globalvar_count(p) == Len(p.globalvar)
fileuri_count(p) == Len(p.fileuri)
methods_count(cls) == Len(cls.method_func_idx)
vars_count(cls) == Len(cls.vars_global_name_idx)

\* the value stored in a bucket record for a new member
MemberSlotEncoding(func_idx, entry_idx) ==
    IF func_idx > 0 THEN entry_idx ELSE H64CLASS_MAX_METHODS + entry_idx

\* a scan that looks at the first record of the bucket only
BucketHasName_FirstOnly(buckets, nameid) ==
    Len(buckets) >= 1 /\ buckets[1].nameid = nameid

\* the scan of a bucket, up to the sentinel, for a record of the name id
BucketHasName(buckets, nameid) ==
    \E i \in 1..Len(buckets) : buckets[i].nameid = nameid

\* lines 176-263, with the interned name id: the duplicate scan, the
\* bucket and slot allocations, the writes
RegisterClassMember_Store(p, class_id, func_idx, fail, interned) ==
    LET nameid == interned.id
        p1 == interned.p
        cls == At(p1.classes, class_id)
        bucketindex == CRem(nameid, H64CLASS_HASH_SIZE)
        buckets == cls.global_name_to_member_hashmap[bucketindex]
        entry_idx == IF func_idx >= 0 THEN methods_count(cls)
                     ELSE vars_count(cls)
        info == [nameid |-> nameid,
                 methodorvaridx |-> MemberSlotEncoding(func_idx, entry_idx)]
        withslot ==
            IF func_idx >= 0
            THEN [cls EXCEPT
                    !.method_global_name_idx = Append(@, nameid),
                    !.method_func_idx = Append(@, func_idx)]
            ELSE [cls EXCEPT !.vars_global_name_idx = Append(@, nameid)]
        newcls == [withslot EXCEPT
                    !.global_name_to_member_hashmap[bucketindex] =
                        Append(@, info)]
    IN  IF nameid < 0 THEN [p |-> p, ret |-> 0]
        ELSE IF BucketHasName(buckets, nameid) THEN [p |-> p1, ret |-> 0]
        ELSE IF fail = "member_bucket" THEN [p |-> p1, ret |-> 0]
        ELSE IF func_idx >= 0 /\ methods_count(cls) >= H64CLASS_MAX_METHODS
        THEN [p |-> p1, ret |-> 0]
        ELSE IF fail = "member_slot" THEN [p |-> p1, ret |-> 0]
        ELSE [p |-> [p1 EXCEPT !.classes[class_id + 1] = newcls],
              ret |-> 1]

\* fail names the allocation that fails, if any:
\* "member_intern", "member_bucket", "member_slot"
h64program_RegisterClassMemberEx(p, class_id, name, func_idx, fail) ==
    RegisterClassMember_Store(
        p, class_id, func_idx, fail,
        h64debugsymbols_MemberNameToMemberNameId(
            p, name, 1, fail = "member_intern"))

h64program_RegisterClassVariable(p, class_id, name, fail) ==
    h64program_RegisterClassMemberEx(p, class_id, name, -1, fail)

\* the bucket array the lookup scans; a negative index is outside the
\* hashmap array
LookupBucketIndex(nameid) == CRem(nameid, H64CLASS_HASH_SIZE)

\* lines 283-290: the decoding of the record found
DecodeMemberSlot(result) ==
    IF result < H64CLASS_MAX_METHODS
    THEN [membervarid |-> -1, memberfuncid |-> result]
    ELSE [membervarid |-> result - H64CLASS_MAX_METHODS,
          memberfuncid |-> -1]

\* lines 274-290: the scan of the bucket for the first record of nameid
LookupInBucket(buckets, nameid) ==
    LET hit == {i \in 1..Len(buckets) : buckets[i].nameid = nameid}
    IN  IF hit = {} THEN [membervarid |-> -1, memberfuncid |-> -1]
        ELSE DecodeMemberSlot(
                 buckets[CHOOSE i \in hit : \A j \in hit : i <= j].
                    methodorvaridx)

\* the lookup for a bucket index inside the hashmap
h64program_LookupClassMember(p, class_id, nameid) ==
    LookupInBucket(
        At(p.classes, class_id).
            global_name_to_member_hashmap[LookupBucketIndex(nameid)],
        nameid)

\* the name id the by-name lookup hands on to h64program_LookupClassMember:
\* there is no return after the nameid < 0 branch
LookupBynameNameId(p, name) ==
    h64debugsymbols_MemberNameToMemberNameId(p, name, 0, FALSE).id

\* the condition of the search loop over the fileuri table, at index k
FileuriSearchContinues(p, k) == k > fileuri_count(p)

\* lines 534-557 for the normalized URI: the search loop starts at k = 0
\* and runs while its condition holds; a URI not found is appended
FileuriLookup(p, normalized_uri, fail) ==
    LET scanned == IF FileuriSearchContinues(p, 0)
                   THEN {k \in 0..(fileuri_count(p) - 1) :
                            At(p.fileuri, k) = normalized_uri}
                   ELSE {}
    IN  IF fail = "fileuri" THEN [p |-> p, ret |-> -1]
        ELSE IF scanned = {}
        THEN [p |-> [p EXCEPT !.fileuri = Append(@, normalized_uri)],
              ret |-> fileuri_count(p)]
        ELSE [p |-> p,
              ret |-> CHOOSE k \in scanned : \A j \in scanned : k <= j]

\* fail = "fileuri": uri_Normalize or the realloc fails
bytecode_fileuriindex(p, fileuri, fail) ==
    FileuriLookup(p, uri_Normalize(fileuri), fail)

\* the fileuri step of the registration functions (fileuri may be NULL: NoUri)
FileuriStep(p, fileuri, fail) ==
    IF fileuri = NoUri THEN [p |-> p, ret |-> -1]
    ELSE bytecode_fileuriindex(p, fileuri, fail)

\* lines 595-641, with the module record: the symbol and the new slot
AddGlobalvar_Symbol(name, is_const, fail, fileuriindex, mod) ==
    LET p2 == mod.p
        m == mod.index + 1
        symbol == [name |-> name, fileuri_index |-> fileuriindex,
                   is_const |-> is_const]
        setno == Len(p2.modules[m].globalvar_symbols)
    IN  IF mod.index < 0 THEN [p |-> p2, ret |-> -1]
        ELSE IF fail \in {"globalvar_symbols", "name", "name_to_entry"}
        THEN [p |-> p2, ret |-> -1]
        ELSE [p |-> [p2 EXCEPT
                        !.modules[m].globalvar_symbols = Append(@, symbol),
                        !.modules[m].globalvar_name_to_entry =
                            hash_MapSet(@, name, setno),
                        !.globalvar = Append(@, [content |-> 0])],
              ret |-> globalvar_count(p2)]

\* lines 578-594, with the result of the fileuri step: the module
AddGlobalvar_Module(name, is_const, fileuri, module_path, fail, uri) ==
    IF fileuri # NoUri /\ uri.ret < 0 THEN [p |-> uri.p, ret |-> -1]
    ELSE AddGlobalvar_Symbol(
             name, is_const, fail, uri.ret,
             ModuleFor(uri.p, module_path, fail = "module"))

\* fail: "globalvar", "fileuri", "module", "globalvar_symbols", "name",
\* "name_to_entry", or "none"
h64program_AddGlobalvar(p, name, is_const, fileuri, module_path, fail) ==
    IF fail = "globalvar" THEN [p |-> p, ret |-> -1]
    ELSE AddGlobalvar_Module(name, is_const, fileuri, module_path, fail,
                             FileuriStep(p, fileuri, fail))

\* the rollback at label funcsymboloom, for module record m of p
funcsymboloom(p, m, name) ==
    [p EXCEPT
        !.modules[m].func_name_to_entry =
            IF name # NULL THEN hash_MapUnset(@, name) ELSE @,
        !.func_id_to_module_symbols_index =
            hash_MapUnset(@, func_count(p)),
        !.func_id_to_module_symbols_func_subindex =
            hash_MapUnset(@, func_count(p))]

\* a function id that is one too high
MethodFuncIdx_OffByOne(p) == func_count(p) + 1

\* the function id handed to h64program_RegisterClassMemberEx
MethodFuncIdx(p) == func_count(p)

\* the h64func entry written at the end of a successful registration
NewFuncEntry(iscfunc, arg_count, associated_class_index) ==
    [iscfunc |-> iscfunc,
     input_stack_size |->
        arg_count + (IF associated_class_index >= 0 THEN 1 ELSE 0),
     associated_class_index |-> associated_class_index]

\* lines 808-838, with the result of the member registration: the rollback,
\* or the h64func entry and the counts
RegisterCFunction_Entry(name, arg_count, associated_class_index, m, fileuriindex, member) ==
    LET symbol == [name |-> name, fileuri_index |-> fileuriindex,
                   has_self_arg |-> (associated_class_index >= 0),
                   arg_count |-> arg_count,
                   global_id |-> func_count(member.p)]
    IN  IF member.ret = 0
        THEN [p |-> funcsymboloom(member.p, m, name), ret |-> -1,
              path |-> "rollback"]
        ELSE [p |-> [member.p EXCEPT
                        !.func = Append(@, NewFuncEntry(
                                    1, arg_count, associated_class_index)),
                        !.modules[m].func_symbols = Append(@, symbol)],
              ret |-> func_count(member.p), path |-> "done"]

\* lines 703-817, with the module record: the symbol, the name map, the
\* func-id maps and the class member
RegisterCFunction_Symbol(name, arg_count, associated_class_index, fail, mod) ==
    LET \* the index is assigned to a local that shadows fileuriindex
        fileuriindex == -1
        p2 == mod.p
        m == mod.index + 1
        setno == Len(p2.modules[m].func_symbols)
        p3 == IF name # NULL
              THEN [p2 EXCEPT !.modules[m].func_name_to_entry =
                                    hash_MapSet(@, name, setno)]
              ELSE p2
        p4 == [p3 EXCEPT !.func_id_to_module_symbols_index =
                                hash_MapSet(@, func_count(p2), mod.index)]
        p5 == [p4 EXCEPT !.func_id_to_module_symbols_func_subindex =
                                hash_MapSet(@, func_count(p2), setno)]
        rollback(q) == [p |-> funcsymboloom(q, m, name), ret |-> -1,
                        path |-> "rollback"]
    IN  IF mod.index < 0 THEN [p |-> p2, ret |-> -1, path |-> "early"]
        ELSE IF fail = "func_symbols"
        THEN [p |-> p2, ret |-> -1, path |-> "early"]
        ELSE IF name # NULL /\ fail = "name" THEN rollback(p2)
        ELSE IF arg_count > 0 /\ fail = "arg_kwarg_name" THEN rollback(p2)
        ELSE IF name # NULL /\ fail = "name_to_entry" THEN rollback(p2)
        ELSE IF fail = "id_to_module" THEN rollback(p3)
        ELSE IF fail = "id_to_subindex" THEN rollback(p4)
        ELSE RegisterCFunction_Entry(
                 name, arg_count, associated_class_index, m, fileuriindex,
                 IF associated_class_index >= 0
                 THEN h64program_RegisterClassMemberEx(
                          p5, associated_class_index, name,
                          MethodFuncIdx(p5), fail)
                 ELSE [p |-> p5, ret |-> 1])

\* lines 663-702, with the result of the fileuri step: the native lookup
\* string and the module
RegisterCFunction_Module(name, func, fileuri, arg_count, module_path, associated_class_index, fail, uri) ==
    IF fileuri # NoUri /\ uri.ret < 0
    THEN [p |-> uri.p, ret |-> -1, path |-> "early"]
    ELSE IF func # 0 /\ fail = "cfunclookup"
    THEN [p |-> uri.p, ret |-> -1, path |-> "early"]
    ELSE RegisterCFunction_Symbol(
             name, arg_count, associated_class_index, fail,
             ModuleFor(uri.p, module_path, fail = "module"))

\* fail: "func", "fileuri", "cfunclookup", "module", "func_symbols", "name",
\* "arg_kwarg_name", "name_to_entry", "id_to_module", "id_to_subindex",
\* "member_intern", "member_bucket", "member_slot", or "none".
\* func is 1 for a non-NULL native pointer.
\* path: "early", "rollback" (through funcsymboloom), "done".
h64program_RegisterCFunction(p, name, func, fileuri, arg_count, module_path, associated_class_index, fail) ==
    IF fail = "func" THEN [p |-> p, ret |-> -1, path |-> "early"]
    ELSE RegisterCFunction_Module(
             name, func, fileuri, arg_count, module_path,
             associated_class_index, fail, FileuriStep(p, fileuri, fail))

\* a wrapper that clears iscfunc of entry 0 instead of the new entry
ClearIsCFunc_Entry0(r) ==
    IF r.ret >= 0 THEN [r EXCEPT !.p.func[1].iscfunc = 0] ELSE r

\* lines 855-859: the entry of the returned id is marked as not native
ClearIsCFunc(r) ==
    IF r.ret >= 0 THEN [r EXCEPT !.p.func[r.ret + 1].iscfunc = 0] ELSE r

h64program_RegisterHorse64Function(p, name, fileuri, arg_count, module_path, associated_class_idx, fail) ==
    ClearIsCFunc(h64program_RegisterCFunction(
        p, name, 0, fileuri, arg_count, module_path,
        associated_class_idx, fail))

\* the key the rollback unsets in the class-id maps
ClassRollbackKey(p) == func_count(p)

\* the rollback at label classsymboloom, for module record m of p
classsymboloom(p, m, name) ==
    [p EXCEPT
        !.modules[m].class_name_to_entry =
            IF name # NULL THEN hash_MapUnset(@, name) ELSE @,
        !.class_id_to_module_symbols_index =
            hash_MapUnset(@, ClassRollbackKey(p)),
        !.class_id_to_module_symbols_class_subindex =
            hash_MapUnset(@, ClassRollbackKey(p))]

\* the h64class entry of a new class: every bucket holds the sentinel only
NewClassEntry ==
    [base_class_global_id |-> -1,
     method_global_name_idx |-> <<>>, method_func_idx |-> <<>>,
     vars_global_name_idx |-> <<>>,
     global_name_to_member_hashmap |->
        [b \in 0..(H64CLASS_HASH_SIZE - 1) |-> <<>>],
     hasvarinitfunc |-> 0]

\* lines 905-1004, with the module record: the symbol, the name map, the
\* class-id maps, the member hashmap and the counts
AddClass_Symbol(name, fail, mod) ==
    LET \* the index is assigned to a local that shadows fileuriindex
        fileuriindex == -1
        p2 == mod.p
        m == mod.index + 1
        symbol == [name |-> name, fileuri_index |-> fileuriindex]
        setno == Len(p2.modules[m].classes_symbols)
        p3 == [p2 EXCEPT !.modules[m].class_name_to_entry =
                                hash_MapSet(@, name, setno)]
        p4 == [p3 EXCEPT !.class_id_to_module_symbols_index =
                                hash_MapSet(@, classes_count(p2), mod.index)]
        p5 == [p4 EXCEPT !.class_id_to_module_symbols_class_subindex =
                                hash_MapSet(@, classes_count(p2), setno)]
        rollback(q) == [p |-> classsymboloom(q, m, name), ret |-> -1,
                        path |-> "rollback"]
    IN  IF mod.index < 0 THEN [p |-> p2, ret |-> -1, path |-> "early"]
        ELSE IF fail = "classes_symbols"
        THEN [p |-> p2, ret |-> -1, path |-> "early"]
        ELSE IF fail \in {"name", "name_to_entry"} THEN rollback(p2)
        ELSE IF fail = "id_to_module" THEN rollback(p3)
        ELSE IF fail = "id_to_subindex" THEN rollback(p4)
        ELSE IF fail \in {"hashmap", "bucket"} THEN rollback(p5)
        ELSE [p |-> [p5 EXCEPT
                        !.classes = Append(@, NewClassEntry),
                        !.modules[m].classes_symbols = Append(@, symbol)],
              ret |-> classes_count(p2), path |-> "done"]

\* lines 880-904, with the result of the fileuri step: the module
AddClass_Module(name, fileuri, module_path, fail, uri) ==
    IF fileuri # NoUri /\ uri.ret < 0
    THEN [p |-> uri.p, ret |-> -1, path |-> "early"]
    ELSE AddClass_Symbol(
             name, fail, ModuleFor(uri.p, module_path, fail = "module"))

\* fail: "classes", "fileuri", "module", "classes_symbols", "name",
\* "name_to_entry", "id_to_module", "id_to_subindex", "hashmap", "bucket",
\* or "none".  path: "early", "rollback" (through classsymboloom), "done".
h64program_AddClass(p, name, fileuri, module_path, fail) ==
    IF fail = "classes" THEN [p |-> p, ret |-> -1, path |-> "early"]
    ELSE AddClass_Module(name, fileuri, module_path, fail,
                         FileuriStep(p, fileuri, fail))

---------------------------------------------------------------------------
(* The program object driven through its API.  An action takes the sets   *)
(* its arguments are drawn from (in), so that a specification can vary    *)
(* the arguments its claims are about and fix the others.                 *)

MemberFail == {"member_intern", "member_bucket", "member_slot"}
GlobalvarFail ==
    {"none", "globalvar", "fileuri", "module", "globalvar_symbols", "name",
     "name_to_entry"}
FuncFail ==
    {"none", "func", "fileuri", "cfunclookup", "module", "func_symbols",
     "name", "arg_kwarg_name", "name_to_entry", "id_to_module",
     "id_to_subindex"} \cup MemberFail
ClassFail ==
    {"none", "classes", "fileuri", "module", "classes_symbols", "name",
     "name_to_entry", "id_to_module", "id_to_subindex", "hashmap", "bucket"}

\* file URIs a call may pass: none, or a URI while the table has room
UriArgs(p, uris) ==
    {NoUri} \cup (IF fileuri_count(p) < MaxFileUris THEN uris ELSE {})

NoCall ==
    [op |-> "none", ret |-> 0, path |-> "none", class_id |-> -1,
     name |-> NULL, fileuri |-> NoUri, bucketindex |-> 0,
     membervarid |-> -1, memberfuncid |-> -1]

\* state of the resolver while the program is driven directly
NoResolve == [pc |-> "off"]
\* state of the identifier pass and of the VM while none is running
NoIdentifiers == [pc |-> "off"]
NoVm == [pc |-> "off"]

Init ==
    /\ program = h64program_New
    /\ call = NoCall
    /\ registered = {}
    /\ failures = 0
    /\ rs = NoResolve
    /\ ir = NoIdentifiers
    /\ vm = NoVm

\* a call that returns its failure value ret counts against MaxFailures
Counted(failed) ==
    /\ failed => failures < MaxFailures
    /\ failures' = failures + (IF failed THEN 1 ELSE 0)

\* the call has returned r
AddGlobalvar_Returns(name, r) ==
    /\ program' = r.p
    /\ Counted(r.ret < 0)
    /\ call' = [NoCall EXCEPT !.op = "AddGlobalvar", !.ret = r.ret,
                    !.name = name]
    /\ UNCHANGED <<registered, rs, ir, vm>>

AddGlobalvar(in) ==
    \E name \in in.globalnames, is_const \in in.consts,
       fileuri \in UriArgs(program, in.uris),
       module_path \in in.modules, fail \in GlobalvarFail :
        /\ globalvar_count(program) < MaxGlobals
        /\ AddGlobalvar_Returns(
               name,
               h64program_AddGlobalvar(
                   program, name, is_const, fileuri, module_path, fail))

\* the member registration a successful method registration has made
MethodRegistration(class_id, name, ret) ==
    IF class_id >= 0 /\ ret >= 0
    THEN {[class_id |-> class_id, name |-> name, func_idx |-> ret]}
    ELSE {}

\* the call op has returned r
RegisterFunction_Returns(op, name, associated_class_index, r) ==
    /\ Counted(r.ret < 0)
    /\ program' = r.p
    /\ call' = [NoCall EXCEPT !.op = op, !.ret = r.ret, !.path = r.path,
                    !.name = name, !.class_id = associated_class_index]
    /\ registered' = registered \cup
            MethodRegistration(associated_class_index, name, r.ret)
    /\ UNCHANGED <<rs, ir, vm>>

RegisterCFunction(in) ==
    \E name \in in.names, fileuri \in UriArgs(program, in.uris),
       arg_count \in in.args, module_path \in in.funcmodules,
       associated_class_index \in -1..(classes_count(program) - 1),
       fail \in FuncFail :
        /\ func_count(program) < MaxFuncs
        \* native functions have a name: assert(name != NULL)
        /\ RegisterFunction_Returns(
               "RegisterCFunction", name, associated_class_index,
               h64program_RegisterCFunction(
                   program, name, 1, fileuri, arg_count, module_path,
                   associated_class_index, fail))

RegisterHorse64Function(in) ==
    \E name \in in.names \cup in.anonymous,
       fileuri \in UriArgs(program, in.uris),
       arg_count \in in.args, module_path \in in.funcmodules,
       associated_class_idx \in -1..(classes_count(program) - 1),
       fail \in FuncFail :
        /\ func_count(program) < MaxFuncs
        \* assert(name != NULL || associated_class_index < 0)
        /\ name # NULL \/ associated_class_idx < 0
        /\ RegisterFunction_Returns(
               "RegisterHorse64Function", name, associated_class_idx,
               h64program_RegisterHorse64Function(
                   program, name, fileuri, arg_count, module_path,
                   associated_class_idx, fail))

\* the call has returned r
AddClass_Returns(name, r) ==
    /\ Counted(r.ret < 0)
    /\ program' = r.p
    /\ call' = [NoCall EXCEPT !.op = "AddClass", !.ret = r.ret,
                    !.path = r.path, !.name = name]
    /\ UNCHANGED <<registered, rs, ir, vm>>

AddClass(in) ==
    \E name \in in.classnames, fileuri \in UriArgs(program, in.uris),
       module_path \in in.modules, fail \in ClassFail :
        /\ classes_count(program) < in.maxclasses
        /\ AddClass_Returns(
               name,
               h64program_AddClass(
                   program, name, fileuri, module_path, fail))

\* the call has returned r
RegisterClassVariable_Returns(class_id, name, r) ==
    /\ Counted(r.ret = 0)
    /\ program' = r.p
    /\ call' = [NoCall EXCEPT !.op = "RegisterClassVariable",
                    !.ret = r.ret, !.name = name, !.class_id = class_id]
    /\ registered' = registered \cup
            (IF r.ret = 1
             THEN {[class_id |-> class_id, name |-> name, func_idx |-> -1]}
             ELSE {})
    /\ UNCHANGED <<rs, ir, vm>>

RegisterClassVariable(in) ==
    \E class_id \in 0..(classes_count(program) - 1), name \in in.varnames,
       fail \in {"none"} \cup MemberFail :
        /\ vars_count(At(program.classes, class_id)) < MaxVars
        /\ RegisterClassVariable_Returns(
               class_id, name,
               h64program_RegisterClassVariable(
                   program, class_id, name, fail))

\* the lookup of nameid in class class_id, where the bucket index is inside
\* the hashmap array
LookupInsideHashmap(class_id, nameid) ==
    IF LookupBucketIndex(nameid) >= 0
    THEN h64program_LookupClassMember(program, class_id, nameid)
    ELSE [membervarid |-> -1, memberfuncid |-> -1]

\* the call has used bucket bucketindex and, unless it crashed, returned r
LookupClassMemberByname_Returns(class_id, name, crash, bucketindex, r) ==
    /\ bucketindex >= 0 => crash = 0
    /\ call' = [NoCall EXCEPT !.op = "LookupClassMemberByname",
                    !.ret = 1 - crash,
                    !.class_id = class_id, !.name = name,
                    !.bucketindex = bucketindex,
                    !.membervarid = r.membervarid,
                    !.memberfuncid = r.memberfuncid]
    /\ UNCHANGED <<program, registered, failures, rs, ir, vm>>

\* h64program_LookupClassMemberByname, which ends in a call of
\* h64program_LookupClassMember.  For a name that was never interned
\* the call goes on with nameid = -1 and reads the bucket pointer at index
\* -1 of the hashmap array, outside the allocation: the call either
\* crashes (ret = 0) or scans whatever it finds there until a negative
\* nameid ends the scan, and returns (-1, -1) (ret = 1).
LookupClassMemberByname(in) ==
    \E class_id \in 0..(classes_count(program) - 1), name \in in.names,
       crash \in {0, 1} :
        LookupClassMemberByname_Returns(
            class_id, name, crash,
            LookupBucketIndex(LookupBynameNameId(program, name)),
            LookupInsideHashmap(
                class_id, LookupBynameNameId(program, name)))

\* the call has returned r
FileuriIndex_Returns(fileuri, r) ==
    /\ Counted(r.ret < 0)
    /\ program' = r.p
    /\ call' = [NoCall EXCEPT !.op = "fileuriindex", !.ret = r.ret,
                    !.fileuri = fileuri]
    /\ UNCHANGED <<registered, rs, ir, vm>>

FileuriIndex(in) ==
    \E fileuri \in in.uris, fail \in {"none", "fileuri"} :
        /\ fileuri_count(program) < MaxFileUris
        /\ FileuriIndex_Returns(
               fileuri, bytecode_fileuriindex(program, fileuri, fail))

\* Spec: registration across modules, every failure point
RegistryInputs ==
    [names |-> {"a"}, anonymous |-> {NULL}, classnames |-> {"a"},
     varnames |-> {"a"}, globalnames |-> {"a"},
     consts |-> {1}, uris |-> {}, modules |-> {NULL},
     funcmodules |-> ModulePaths,
     args |-> {1}, maxclasses |-> MaxClasses]

Next ==
    \/ AddGlobalvar(RegistryInputs)
    \/ RegisterCFunction(RegistryInputs)
    \/ RegisterHorse64Function(RegistryInputs)
    \/ AddClass(RegistryInputs)
    \/ RegisterClassVariable(RegistryInputs)

Spec == Init /\ [][Next]_vars

\* SpecMembers: classes, their members and the member lookups
MemberInputs ==
    [names |-> Names, anonymous |-> {}, classnames |-> {"a"},
     varnames |-> Names, globalnames |-> {},
     consts |-> {0}, uris |-> {}, modules |-> {NULL},
     funcmodules |-> {NULL}, args |-> {0},
     maxclasses |-> MaxMemberClasses]

NextMembers ==
    \/ RegisterHorse64Function(MemberInputs)
    \/ AddClass(MemberInputs)
    \/ RegisterClassVariable(MemberInputs)
    \/ LookupClassMemberByname(MemberInputs)

SpecMembers == Init /\ [][NextMembers]_vars

\* SpecFileuri: registration with file URIs
FileuriInputs ==
    [names |-> {"a"}, anonymous |-> {}, classnames |-> {"a"},
     varnames |-> {}, globalnames |-> {"a"},
     consts |-> {0, 1}, uris |-> FileUris, modules |-> {NULL},
     funcmodules |-> {NULL},
     args |-> {0}, maxclasses |-> MaxMemberClasses]

NextFileuri ==
    \/ FileuriIndex(FileuriInputs)
    \/ AddGlobalvar(FileuriInputs)
    \/ RegisterHorse64Function(FileuriInputs)
    \/ AddClass(FileuriInputs)

SpecFileuri == Init /\ [][NextFileuri]_vars

---------------------------------------------------------------------------
(* File paths (src/horse64/filesys.c).  A path is a sequence of characters, *)
(* each a one-character string; the build is the POSIX one ('/' only).     *)

NUL == "<NUL>"

\* result[k] of a C string held as a sequence: the terminator at its end
Ch(s, k) == IF k >= 0 /\ k < Len(s) THEN s[k + 1] ELSE NUL

\* the characters of s from C index k on
From(s, k) == SubSeq(s, k + 1, Len(s))

\* the C string as a TLA+ string
RECURSIVE Str(_)
Str(s) == IF s = <<>> THEN "" ELSE Head(s) \o Str(Tail(s))

RECURSIVE DropRepeatedSeps(_, _)
DropRepeatedSeps(path, lastwassep) ==
    IF path = <<>> THEN <<>>
    ELSE IF Head(path) = "/"
    THEN (IF lastwassep THEN <<>> ELSE <<"/">>)
            \o DropRepeatedSeps(Tail(path), TRUE)
    ELSE <<Head(path)>> \o DropRepeatedSeps(Tail(path), FALSE)

filesys_RemoveDoubleSlashes(path) ==
    LET p == DropRepeatedSeps(path, FALSE)
    IN  IF Len(p) > 1 /\ p[Len(p)] = "/" THEN SubSeq(p, 1, Len(p) - 1) ELSE p

RECURSIVE DropLeadingSeps(_)
DropLeadingSeps(s) ==
    IF s # <<>> /\ Head(s) = "/" THEN DropLeadingSeps(Tail(s)) ELSE s

\* the loop that collapses "/../", "/./" and repeated separators; i is the
\* read position and lcs is last_component_start
RECURSIVE NormalizeLoop(_, _, _)
NormalizeLoop(result, i, lcs) ==
    IF i >= Len(result) THEN result
    ELSE IF /\ Ch(result, i) = "/"
            /\ Ch(result, i + 1) = "."
            /\ Ch(result, i + 2) = "."
            /\ Ch(result, i + 3) \in {"/", NUL}
            /\ i > lcs
            /\ i > 0
            /\ \/ Ch(result, lcs + 1) # "."
               \/ Ch(result, lcs + 2) # "."
               \/ Ch(result, lcs + 3) # "/"
    THEN LET movelen == IF Ch(result, i + 3) = NUL THEN 3 ELSE 4
         IN  NormalizeLoop(
                 SubSeq(result, 1, lcs + 1) \o From(result, i + movelen),
                 0, 0)
    ELSE IF /\ Ch(result, i) = "/"
            /\ Ch(result, i + 1) = "."
            /\ Ch(result, i + 2) = "/"
    THEN NormalizeLoop(SubSeq(result, 1, i) \o From(result, i + 2), i, i)
    ELSE IF Ch(result, i) = "/"
    THEN NormalizeLoop(
             SubSeq(result, 1, i + 1)
                \o DropLeadingSeps(From(result, i + 1)),
             i + 1, i)
    ELSE NormalizeLoop(result, i + 1, lcs)

RECURSIVE DropLeadingDotSlash(_)
DropLeadingDotSlash(s) ==
    IF Len(s) >= 2 /\ s[1] = "." /\ s[2] = "/"
    THEN DropLeadingDotSlash(From(s, 2))
    ELSE s

RECURSIVE DropTrailingSeps(_)
DropTrailingSeps(s) ==
    IF Len(s) > 0 /\ s[Len(s)] = "/"
    THEN DropTrailingSeps(SubSeq(s, 1, Len(s) - 1))
    ELSE s

filesys_Normalize(path) ==
    DropTrailingSeps(DropLeadingDotSlash(
        NormalizeLoop(filesys_RemoveDoubleSlashes(path), 0, -1)))

---------------------------------------------------------------------------
(* Result messages (result.c is not among the sources) *)

NewResult == [success |-> TRUE, messages |-> <<>>]

\* an ERROR message clears the success flag; oom: the allocation fails
result_AddMessage(r, type, message, fileuri, line, oom) ==
    IF oom THEN [r |-> r, ret |-> 0]
    ELSE [r |-> [success |-> IF type = "ERROR" THEN FALSE ELSE r.success,
                 messages |-> Append(r.messages,
                    [type |-> type, message |-> message,
                     fileuri |-> fileuri, line |-> line])],
          ret |-> 1]

\* the messages of from that to does not hold yet, in order
RECURSIVE NewMessages(_, _)
NewMessages(from, have) ==
    IF from = <<>> THEN <<>>
    ELSE IF \E i \in 1..Len(have) : have[i] = Head(from)
    THEN NewMessages(Tail(from), have)
    ELSE <<Head(from)>> \o NewMessages(Tail(from), Append(have, Head(from)))

result_TransferMessages(from, to, oom) ==
    IF oom THEN [r |-> to, ret |-> 0]
    ELSE [r |-> [success |-> to.success /\ from.success,
                 messages |-> to.messages
                                \o NewMessages(from.messages, to.messages)],
          ret |-> 1]

---------------------------------------------------------------------------
(* Scope resolver, global storage pass                                      *)
(* (src/horse64/compiler/scoperesolver.c).  An AST is the list of its      *)
(* definitions in the order the visitor leaves them; line numbers are the  *)
(* positions in that list.                                                 *)

\* definitions per file
MaxDefs == 3

Files == {"entry", "imp", "imp2"}

FuncDef(name, is_global) ==
    [type |-> "funcdef", name |-> name, is_global |-> is_global,
     storage_set |-> 0, storage_id |-> -1, bytecode_func_id |-> -1,
     referenced_ast |-> "none"]

\* an import statement of the module held in file target
ImportDef(target) ==
    [type |-> "import", name |-> target, is_global |-> 1,
     storage_set |-> 0, storage_id |-> -1, bytecode_func_id |-> -1,
     referenced_ast |-> "none"]

\* the definitions an entry file is made of: a global main, a global f, a
\* main nested in another function, an import of the other file
EntryDefKinds ==
    {FuncDef("main", 1), FuncDef("f", 1), FuncDef("main", 0),
     ImportDef("imp")}

EntryDefs ==
    UNION {[1..n -> EntryDefKinds] : n \in 0..MaxDefs}

\* the imported file defines f and a main of its own, and imports a third
\* file
ImportedDefs ==
    <<FuncDef("f", 1), FuncDef("main", 1), ImportDef("imp2")>>

\* the file imported by the imported file defines g
SecondImportedDefs == <<FuncDef("g", 1)>>

Ext == <<".", "h", "6", "4">>

\* relative paths of the entry file: m.h64, ./m.h64, m.b.h64
EntryRelPaths ==
    {<<"m">> \o Ext, <<".", "/", "m">> \o Ext, <<"m", ".", "b">> \o Ext}

\* relative path of the imported file: d/n.h64
ImportedRelPath == <<"d", "/", "n">> \o Ext

\* relative paths of the imported file: d/n.h64, d/n.x.h64
ImportedRelPaths ==
    {ImportedRelPath, <<"d", "/", "n", ".", "x">> \o Ext}

\* relative path of the file the imported file imports: e.h64
SecondImportedRelPath == <<"e">> \o Ext

\* located: compileproject_GetFileSubProjectPath and compileproject_URIRelPath
\* find the file inside a project (compileproject.c is not among the sources)
NewAst(fileuri, relpath, located, defs) ==
    [fileuri |-> fileuri, relpath |-> relpath, located |-> located,
     module_path |-> NULL, global_storage_built |-> 0,
     identifiers_resolved |-> 0, resultmsg |-> NewResult, defs |-> defs]

\* lines 1035-1041: one trailing .h64 is removed
StripExtension(relpath) ==
    IF /\ Len(relpath) > Len(Ext)
       /\ SubSeq(relpath, Len(relpath) - 3, Len(relpath)) = Ext
    THEN SubSeq(relpath, 1, Len(relpath) - 4)
    ELSE relpath

\* a derivation that refuses a '.' but leaves the separators in place
DottedModulePath_SeparatorsKept(module_path) ==
    IF \E i \in 1..Len(module_path) : module_path[i] = "."
    THEN [ok |-> FALSE, path |-> Str(module_path)]
    ELSE [ok |-> TRUE, path |-> Str(module_path)]

\* lines 1050-1084, for the normalized path: a '.' is refused, the
\* separators become '.'
DottedModulePath(module_path) ==
    IF \E i \in 1..Len(module_path) : module_path[i] = "."
    THEN [ok |-> FALSE, path |-> Str(module_path)]
    ELSE [ok |-> TRUE,
          path |-> Str([i \in 1..Len(module_path) |->
                          IF module_path[i] = "/" THEN "."
                          ELSE module_path[i]])]

\* lines 1034-1084
ModulePathDerivation(relpath) ==
    DottedModulePath(filesys_Normalize(StripExtension(relpath)))

MsgDuplicateMain == "unexpected duplicate main func found"
MsgMissingMain ==
    "unexpected lack of \"main\" func, expected to find it as a program starting point in this file"
MsgDots == "cannot integrate module with dots in file path"
MsgNoProjectBase == "unexpected failure to locate file's project base"
MsgImportOom ==
    "import failed, out of memory or other fatal internal error"

\* the error paths of lines 983-1069: the message is added, and the build
\* returns 1, or 0 when the message cannot be allocated
BuildAborted(a, added) ==
    [ast |-> [a EXCEPT !.resultmsg = added.r], ret |-> added.ret]

\* lines 977-1094, with the derived module path d
BuildModulePath_Derived(a, fail, d) ==
    IF fail = "path" THEN [ast |-> a, ret |-> 0]
    ELSE IF ~a.located
    THEN BuildAborted(a, result_AddMessage(
             a.resultmsg, "ERROR", MsgNoProjectBase, a.fileuri, -1,
             fail = "message"))
    ELSE IF ~d.ok
    THEN BuildAborted(a, result_AddMessage(
             a.resultmsg, "ERROR", MsgDots, a.fileuri, -1,
             fail = "message"))
    ELSE [ast |-> [a EXCEPT !.module_path = d.path], ret |-> 2]

\* lines 961-1094 of scoperesolver_BuildASTGlobalStorage for the AST a.
\* ret: 0 (out of memory), 1 (return 1 before the visitor), 2 (go on)
\* fail: "path" (an allocation of the derivation), "message"
BuildModulePath(a, fail) ==
    IF a.global_storage_built = 1 THEN [ast |-> a, ret |-> 1]
    ELSE IF a.module_path # NULL
    THEN [ast |-> [a EXCEPT !.global_storage_built = 1], ret |-> 2]
    ELSE BuildModulePath_Derived(
             [a EXCEPT !.global_storage_built = 1], fail,
             ModulePathDerivation(a.relpath))

\* lines 1097-1200: every import statement gets its referenced AST;
\* fail = "import": compileproject_ResolveImport runs out of memory
LoadImports(a, fail) ==
    LET pending == {i \in 1..Len(a.defs) :
                        /\ a.defs[i].type = "import"
                        /\ a.defs[i].referenced_ast = "none"}
        first == CHOOSE i \in pending : \A j \in pending : i <= j
    IN  IF pending = {} THEN [ast |-> a, ret |-> 1]
        ELSE IF fail = "import"
        THEN [ast |-> [a EXCEPT !.resultmsg =
                        result_AddMessage(@, "ERROR", MsgImportOom,
                                          a.fileuri, first - 1, FALSE).r],
              ret |-> 0]
        ELSE [ast |-> [a EXCEPT !.defs =
                        [i \in 1..Len(a.defs) |->
                            IF i \in pending
                            THEN [a.defs[i] EXCEPT
                                    !.referenced_ast = a.defs[i].name]
                            ELSE a.defs[i]]],
              ret |-> 1]

\* a duplicate main that reports no duplicate
MainAlreadyFound_Never(p) == FALSE

\* the test of line 303
MainAlreadyFound(p) == p.main_func_index >= 0

\* a record of what a visit leaves behind
VisitResult(project, ast, p, ret) ==
    [project |-> project, ast |-> ast, p |-> p, ret |-> ret]

\* lines 303-323: a second main; the function, registered as expr, stays
ComputeItemStorage_Duplicate(project, a, i, expr, p, fail, added) ==
    LET failedmsg == [added.r EXCEPT !.success = FALSE]
        transferred == result_TransferMessages(
                           failedmsg, project, fail = "transfer")
    IN  IF added.ret = 0 THEN VisitResult(project, a, p, 0)
        ELSE IF transferred.ret = 0
        THEN VisitResult(project, [a EXCEPT !.resultmsg = failedmsg], p, 0)
        ELSE VisitResult(
                 [transferred.r EXCEPT !.success = FALSE],
                 [a EXCEPT !.resultmsg = failedmsg,
                           !.defs[i].bytecode_func_id = expr.storage_id],
                 p, 1)

\* lines 325-340: the first main becomes the program's main (pmain); uri
\* is the result of bytecode_fileuriindex for the file of the AST
ComputeItemStorage_Main(project, a, i, id, fail, pmain, uri) ==
    IF fail = "mainpath"
    THEN VisitResult(project, a, pmain, 0)
    ELSE IF uri.ret < 0
    THEN VisitResult(
             project, a,
             [uri.p EXCEPT !.mainfile_module_path = a.module_path,
                           !.mainfileuri_index = -1], 0)
    ELSE VisitResult(
             project, [a EXCEPT !.defs[i].bytecode_func_id = id],
             [uri.p EXCEPT !.mainfile_module_path = a.module_path,
                           !.mainfileuri_index = uri.ret], 1)

\* lines 278-346, with the result reg of the registration
ComputeItemStorage_Registered(project, a, i, extract_main, fail, reg) ==
    LET expr == a.defs[i]
        id == reg.ret
        stored == IF expr.is_global = 1
                  THEN [a EXCEPT !.defs[i].storage_set = 1,
                                 !.defs[i].storage_id = id]
                  ELSE a
    IN  IF id < 0 THEN VisitResult(project, a, reg.p, 0)
        ELSE IF ~(expr.is_global = 1 /\ expr.name = "main"
                    /\ extract_main = 1)
        THEN VisitResult(
                 project, [stored EXCEPT !.defs[i].bytecode_func_id = id],
                 reg.p, 1)
        ELSE IF MainAlreadyFound(reg.p)
        THEN ComputeItemStorage_Duplicate(
                 project, stored, i, stored.defs[i], reg.p, fail,
                 result_AddMessage(
                     a.resultmsg, "ERROR", MsgDuplicateMain, a.fileuri,
                     i - 1, fail = "message"))
        ELSE ComputeItemStorage_Main(
                 project, stored, i, id, fail,
                 [reg.p EXCEPT !.main_func_index = id],
                 bytecode_fileuriindex(
                     [reg.p EXCEPT !.main_func_index = id], a.fileuri,
                     IF fail = "mainfileuri" THEN "fileuri" ELSE "none"))

\* scoperesolver_ComputeItemStorage for the function definition at index i
\* (from 1) of the AST a.  fail: a failure of the registration (FuncFail),
\* "message", "transfer", "mainpath", "mainfileuri", or "none".
\* ret 0 is the out-of-memory return.
ComputeItemStorage(project, a, i, p, extract_main, fail) ==
    IF a.defs[i].is_global = 1 /\ a.defs[i].storage_set = 1
    THEN VisitResult(project, a, p, 1)
    ELSE ComputeItemStorage_Registered(
             project, a, i, extract_main, fail,
             h64program_RegisterHorse64Function(
                 p, a.defs[i].name, a.fileuri, 0, a.module_path, -1, fail))

\* _resolvercallback_BuildGlobalStorage_visit_out on definition i of a
BuildGlobalStorage_visit_out(project, a, i, p, extract_main, fail) ==
    LET expr == a.defs[i]
    IN  IF /\ expr.type = "funcdef"
           /\ \/ expr.is_global = 1 /\ expr.storage_set = 0
              \/ expr.bytecode_func_id < 0
        THEN ComputeItemStorage(project, a, i, p, extract_main, fail)
        ELSE VisitResult(project, a, p, 1)

\* a recursion that hands the caller's flag on
RecursionExtractMain_Kept(extract_main) == extract_main

\* line 1227: rinfo2.extract_main = 0
RecursionExtractMain(extract_main) == 0

\* failures of a step of the pass
VisitFail ==
    {"none", "func", "name", "message", "transfer", "mainpath",
     "mainfileuri"}
BuildFail == {"none", "path", "message", "import", "transfer"}

\* rs.cur is the AST scoperesolver_BuildASTGlobalStorage works on, rs.i
\* the definition its visitor is at, rs.j the definition the recursion
\* loop of the entry file is at
ResolveStart(extract, entry, imprel) ==
    [pc |-> "idle", extract_program_main |-> extract,
     extract_main |-> 0, cur |-> "entry", i |-> 0, j |-> 0,
     buildret |-> -1, ret |-> -1,
     project |-> NewResult,
     ast |-> [f \in Files |->
                IF f = "entry" THEN entry
                ELSE IF f = "imp"
                THEN NewAst(<<"y">>, imprel, TRUE, ImportedDefs)
                ELSE NewAst(<<"z">>, SecondImportedRelPath, TRUE,
                            SecondImportedDefs)]]

\* the program before compilation: fresh, or with one native function
\* registered the way the core library registers its functions
ProgramsBeforeResolve ==
    {h64program_New,
     h64program_RegisterCFunction(
         h64program_New, "a", 1, NoUri, 0, NULL, -1, "none").p}

InitResolve ==
    /\ ir = NoIdentifiers
    /\ vm = NoVm
    /\ program \in ProgramsBeforeResolve
    /\ call = NoCall
    /\ registered = {}
    /\ failures = 0
    /\ \E extract \in {0, 1}, relpath \in EntryRelPaths,
          located \in BOOLEAN, defs \in EntryDefs,
          imprel \in ImportedRelPaths :
            /\ ~located => relpath = <<"m">> \o Ext
            /\ rs = ResolveStart(
                        extract, NewAst(<<"x">>, relpath, located, defs),
                        imprel)

\* scoperesolver_BuildASTGlobalStorage returns r for rs.cur: to
\* scoperesolver_ResolveAST for the entry, to the recursion loop (lines
\* 1228-1238) for an imported file
BuildReturns(s, r, fail) ==
    LET t == result_TransferMessages(s.ast[s.cur].resultmsg, s.project,
                                     fail = "transfer")
    IN  IF s.cur = "entry"
        THEN [s EXCEPT !.pc = "after_build", !.buildret = r]
        ELSE IF r = 0 \/ t.ret = 0
        THEN [s EXCEPT !.pc = "after_build", !.buildret = 0,
                       !.cur = "entry"]
        ELSE [s EXCEPT !.pc = "recurse", !.cur = "entry",
                       !.extract_main = s.extract_program_main,
                       !.project = t.r, !.j = s.j + 1]

\* the build of rs.cur has returned 0 in state s
ReturnedOom(s) == s.pc = "after_build" /\ s.buildret = 0

\* lines 1255-1269: scoperesolver_ResolveAST is entered for the entry file
ResolveAST_Enter ==
    /\ rs.pc = "idle"
    /\ rs.ast["entry"].identifiers_resolved = 0
    /\ program.main_func_index < 0 \/ rs.extract_program_main = 0
    /\ rs' = [rs EXCEPT !.pc = "build", !.cur = "entry",
                        !.ast["entry"].identifiers_resolved = 1,
                        !.extract_main = rs.extract_program_main]
    /\ UNCHANGED <<program, call, registered, failures, ir, vm>>

\* lines 1097-1209 begin, with the result m of the module path step: the
\* imports are loaded, or the build returns
BuildStart_Imports(s, fail, m, l) ==
    IF m.ret = 2 /\ l.ret = 1
    THEN [s EXCEPT !.ast[s.cur] = l.ast, !.pc = "visit", !.i = 0]
    ELSE IF m.ret = 2
    THEN BuildReturns([s EXCEPT !.ast[s.cur] = l.ast], 0, fail)
    ELSE BuildReturns([s EXCEPT !.ast[s.cur] = m.ast], m.ret, fail)

BuildStart_ModulePath(s, fail, m) ==
    BuildStart_Imports(s, fail, m, LoadImports(m.ast, fail))

\* the step has led to the resolver state next; out of memory is counted
ResolveStep(fail, next) ==
    /\ (fail # "none") = ReturnedOom(next)
    /\ Counted(ReturnedOom(next))
    /\ rs' = next

\* lines 961-1200: module path and imports of rs.cur
BuildASTGlobalStorage_Start ==
    /\ rs.pc = "build"
    /\ \E fail \in BuildFail :
        ResolveStep(fail, BuildStart_ModulePath(
            rs, fail, BuildModulePath(rs.ast[rs.cur], fail)))
    /\ UNCHANGED <<program, call, registered, ir, vm>>

\* the visitor has left a definition with the result v
Visit_Returns(s, fail, v) ==
    /\ (fail # "none") = (v.ret = 0)
    /\ Counted(v.ret = 0)
    /\ program' = v.p
    /\ rs' = IF v.ret = 0
             THEN BuildReturns(
                      [s EXCEPT !.ast[s.cur] = v.ast,
                                !.project = v.project], 0, "none")
             ELSE [s EXCEPT !.ast[s.cur] = v.ast, !.project = v.project,
                            !.i = s.i + 1]

\* lines 1203-1209: the visitor leaves the next definition of rs.cur
BuildGlobalStorage_Visit ==
    /\ rs.pc = "visit"
    /\ rs.i < Len(rs.ast[rs.cur].defs)
    /\ \E fail \in VisitFail :
        Visit_Returns(rs, fail, BuildGlobalStorage_visit_out(
            rs.project, rs.ast[rs.cur], rs.i + 1, program,
            rs.extract_main, fail))
    /\ UNCHANGED <<call, registered, ir, vm>>

\* the import statements with a referenced AST from definition j (from 0) on
ImportsFrom(a, j) ==
    {k \in (j + 1)..Len(a.defs) :
        a.defs[k].type = "import" /\ a.defs[k].referenced_ast # "none"}

\* lines 1212-1242 for the import statements todo of the entry file that
\* are still to be handled
Recurse_Next(s, fail, todo) ==
    IF s.cur = "entry" /\ todo # {}
    THEN [s EXCEPT
            !.pc = "build",
            !.j = (CHOOSE x \in todo : \A y \in todo : x <= y) - 1,
            !.cur = s.ast["entry"].defs[
                        CHOOSE x \in todo : \A y \in todo : x <= y].
                            referenced_ast,
            !.extract_main = RecursionExtractMain(s.extract_main)]
    ELSE BuildReturns(s, 1, fail)

\* lines 1211-1252: after the visitor, the entry file (recursive = 1) builds
\* the storage of the next imported AST, with recursive = 0 and the flag of
\* line 1227; a file without further imports to build returns 1
BuildASTGlobalStorage_Recurse ==
    /\ \/ rs.pc = "visit" /\ rs.i = Len(rs.ast[rs.cur].defs)
       \/ rs.pc = "recurse"
    /\ \E fail \in {"none", "transfer"} :
        ResolveStep(fail, Recurse_Next(
            rs, fail,
            ImportsFrom(rs.ast["entry"],
                        IF rs.pc = "visit" THEN 0 ELSE rs.j)))
    /\ UNCHANGED <<program, call, registered, ir, vm>>

\* lines 1286-1328, with the entry's flags cleared in failed and the
\* missing-main message added
ResolveAST_Passes(s, failed, fail, missing, added) ==
    IF missing /\ added.ret = 0
    THEN [failed EXCEPT !.pc = "returned", !.ret = 0]
    ELSE IF missing
    THEN [failed EXCEPT !.ast["entry"].resultmsg = added.r,
                        !.pc = "returned",
                        !.ret = IF fail = "identifiers" THEN 0 ELSE 1]
    ELSE [s EXCEPT !.pc = "returned",
                   !.ret = IF fail = "identifiers" THEN 0 ELSE 1]

\* lines 1273-1328, with the flags cleared in failed
ResolveAST_AfterBuild(s, failed, fail, missing) ==
    IF s.buildret = 0
    THEN [failed EXCEPT !.pc = "returned", !.ret = 0]
    ELSE IF ~s.project.success \/ ~s.ast["entry"].resultmsg.success
    THEN [failed EXCEPT !.pc = "returned", !.ret = 1]
    ELSE ResolveAST_Passes(
             s, failed, fail, missing,
             result_AddMessage(
                 failed.ast["entry"].resultmsg, "ERROR", MsgMissingMain,
                 s.ast["entry"].fileuri, -1, fail = "message"))

\* the call has returned in the resolver state next
ResolveAST_Returns(fail, next) ==
    /\ (fail # "none") = (rs.buildret # 0 /\ next.ret = 0)
    /\ Counted(rs.buildret # 0 /\ next.ret = 0)
    /\ rs' = next

\* lines 1273-1328: scoperesolver_ResolveAST after the global storage pass.
\* fail: "message" (the missing-main message), "identifiers" (the
\* identifier pass or the local storage pass runs out of memory)
ResolveAST_Finish ==
    /\ rs.pc = "after_build"
    /\ \E fail \in {"none", "message", "identifiers"} :
        ResolveAST_Returns(fail, ResolveAST_AfterBuild(
            rs,
            [rs EXCEPT !.project.success = FALSE,
                       !.ast["entry"].resultmsg.success = FALSE],
            fail,
            rs.extract_program_main = 1 /\ program.main_func_index < 0))
    /\ UNCHANGED <<program, call, registered, ir, vm>>

NextResolve ==
    \/ ResolveAST_Enter
    \/ BuildASTGlobalStorage_Start
    \/ BuildGlobalStorage_Visit
    \/ BuildASTGlobalStorage_Recurse
    \/ ResolveAST_Finish

SpecResolve == InitResolve /\ [][NextResolve]_vars

---------------------------------------------------------------------------
(* Claims about the program object *)

IsFuncRegistration(c) ==
    c.op \in {"RegisterCFunction", "RegisterHorse64Function"}

\* the call c registers a member and has returned its failure value
MemberRegistrationFailed(c) ==
    \/ c.op = "RegisterClassVariable" /\ c.ret = 0
    \/ IsFuncRegistration(c) /\ c.ret = -1

\* the call c registers a member (variable, or method of a class)
IsMemberRegistration(c) ==
    \/ c.op = "RegisterClassVariable"
    \/ IsFuncRegistration(c) /\ c.class_id >= 0

\* the name was registered with success on the class before
WasRegistered(class_id, name) ==
    \E m \in registered : m.class_id = class_id /\ m.name = name

\* C1: once a name has been registered on a class, every later registration
\* of that name on that class, as a method or as a variable, fails and
\* leaves the class's counts, member arrays and hashmap buckets as they were.
C1_DuplicateMemberFails ==
    [][(IsMemberRegistration(call')
            /\ WasRegistered(call'.class_id, call'.name))
        => (MemberRegistrationFailed(call')
            /\ program'.classes = program.classes)]_vars

\* a duplicate registration has been tried on a class that has members
C1_Witness ==
    /\ IsMemberRegistration(call)
    /\ WasRegistered(call.class_id, call.name)
    /\ MemberRegistrationFailed(call)
    /\ Cardinality(registered) >= 2

\* the lookup result for a registered member
LookupOf(m) ==
    h64program_LookupClassMember(
        program, m.class_id, IndexOf(program.member_name, m.name))

\* C2: a member registered as a method (func_idx >= 0, function id 0
\* included) is looked up as a function, memberfuncid >= 0 and
\* membervarid = -1; a member registered as a variable is looked up as a
\* variable, membervarid >= 0 and memberfuncid = -1.
C2_LookupDiscriminator ==
    \A m \in registered :
        IF m.func_idx >= 0
        THEN LookupOf(m).memberfuncid >= 0 /\ LookupOf(m).membervarid = -1
        ELSE LookupOf(m).membervarid >= 0 /\ LookupOf(m).memberfuncid = -1

\* C3: a name never registered on a class is looked up as (-1, -1), by an
\* interned name id and by name, and the lookup by name of a name that was
\* never interned indexes no bucket with a negative name id.
C3_AbsentMemberLookup ==
    /\ \A c \in 0..(classes_count(program) - 1) :
        \A id \in 0..(Len(program.member_name) - 1) :
            ~WasRegistered(c, At(program.member_name, id))
            => h64program_LookupClassMember(program, c, id) =
                    [membervarid |-> -1, memberfuncid |-> -1]
    /\ (call.op = "LookupClassMemberByname"
            /\ ~WasRegistered(call.class_id, call.name))
        => /\ call.bucketindex >= 0
           /\ call.ret = 1
           /\ call.membervarid = -1
           /\ call.memberfuncid = -1

\* the entry of key k is the same in the maps m1 and m2
SameEntry(m1, m2, k) ==
    /\ hash_MapHas(m1, k) <=> hash_MapHas(m2, k)
    /\ hash_MapHas(m1, k) => m1[k] = m2[k]

\* C4: a function registration that returns -1 leaves func_count, every
\* module's func_count, the name -> entry association of every function
\* registered before, the func-id reverse index of the existing ids and the
\* class member tables as they were.
C4_FailedRegistrationUnchanged ==
    [][(IsFuncRegistration(call') /\ call'.ret = -1)
        => /\ func_count(program') = func_count(program)
           /\ \A i \in 1..Len(program.modules) :
                /\ Len(program'.modules[i].func_symbols) =
                        Len(program.modules[i].func_symbols)
                /\ \A n \in DOMAIN program.modules[i].func_name_to_entry :
                        SameEntry(program.modules[i].func_name_to_entry,
                                  program'.modules[i].func_name_to_entry, n)
           /\ \A id \in 0..(func_count(program) - 1) :
                /\ SameEntry(program.func_id_to_module_symbols_index,
                             program'.func_id_to_module_symbols_index, id)
                /\ SameEntry(
                        program.func_id_to_module_symbols_func_subindex,
                        program'.func_id_to_module_symbols_func_subindex, id)
           /\ program'.classes = program.classes]_vars

\* C5: an h64program_AddClass that fails after it has started writing
\* leaves classes_count and the class-id reverse index of every class
\* registered before as they were, and leaves no entry for the new id.
C5_AddClassRollback ==
    [][(call'.op = "AddClass" /\ call'.path = "rollback")
        => /\ classes_count(program') = classes_count(program)
           /\ \A id \in 0..(classes_count(program) - 1) :
                /\ SameEntry(program.class_id_to_module_symbols_index,
                             program'.class_id_to_module_symbols_index, id)
                /\ SameEntry(
                       program.class_id_to_module_symbols_class_subindex,
                       program'.class_id_to_module_symbols_class_subindex,
                       id)
           /\ ~hash_MapHas(program'.class_id_to_module_symbols_index,
                           classes_count(program))
           /\ ~hash_MapHas(
                   program'.class_id_to_module_symbols_class_subindex,
                   classes_count(program))]_vars

\* no two entries of the table are equal
NoDuplicates(s) ==
    \A i, j \in 1..Len(s) : i # j => s[i] # s[j]

\* C6: the fileuri table is a set: a call with a URI whose normalized form
\* is in the table returns the index of that entry and does not grow the
\* table, and the table never holds two equal entries.
C6_FileuriTableIsSet ==
    [][/\ NoDuplicates(program'.fileuri)
       /\ (call'.op = "fileuriindex" /\ call'.ret >= 0
              /\ IndexOf(program.fileuri, uri_Normalize(call'.fileuri)) >= 0)
          => /\ fileuri_count(program') = fileuri_count(program)
             /\ At(program.fileuri, call'.ret) =
                    uri_Normalize(call'.fileuri)]_vars

\* s is a prefix of t
IsPrefix(s, t) ==
    Len(s) <= Len(t) /\ \A i \in 1..Len(s) : s[i] = t[i]

\* the class entry keeps its identity and the members it had, at the same
\* indexes (its member tables only grow at the end)
ClassEntryKept(old, new) ==
    /\ new.base_class_global_id = old.base_class_global_id
    /\ IsPrefix(old.method_global_name_idx, new.method_global_name_idx)
    /\ IsPrefix(old.method_func_idx, new.method_func_idx)
    /\ IsPrefix(old.vars_global_name_idx, new.vars_global_name_idx)
    /\ \A b \in 0..(H64CLASS_HASH_SIZE - 1) :
            IsPrefix(old.global_name_to_member_hashmap[b],
                     new.global_name_to_member_hashmap[b])

C8_MethodsBelongToClass ==
    \A c \in 0..(classes_count(program) - 1) :
        \A k \in 1..Len(At(program.classes, c).method_func_idx) :
            LET f == At(program.classes, c).method_func_idx[k]
            IN  /\ 0 <= f
                /\ f < func_count(program)
                /\ At(program.func, f).associated_class_index = c

\* both classes have a method, after a call has failed
C8_Witness ==
    /\ classes_count(program) = 2
    /\ \A c \in 0..1 : Len(At(program.classes, c).method_func_idx) = 1
    /\ failures >= 1

---------------------------------------------------------------------------
(* Claims about the global storage pass of the resolver *)

\* the global-scope functions named main of the AST a, by position
GlobalMains(a) ==
    {i \in 1..Len(a.defs) :
        /\ a.defs[i].type = "funcdef"
        /\ a.defs[i].name = "main"
        /\ a.defs[i].is_global = 1}

FirstOf(set) == CHOOSE i \in set : \A j \in set : i <= j

\* scoperesolver_ResolveAST has returned for the entry file
Resolved == rs.pc = "returned"

\* the global storage pass visited the whole entry file: its module path
\* was derived and scoperesolver_BuildASTGlobalStorage returned 1
PassCompleted ==
    rs.buildret = 1 /\ rs.ast["entry"].module_path # NULL

\* no function of the imported file is the program's main
ImportedMainNotExtracted ==
    \A i \in 1..Len(rs.ast["imp"].defs) :
        rs.ast["imp"].defs[i].storage_set = 1
        => rs.ast["imp"].defs[i].storage_id # program.main_func_index

\* main_func_index, when set, is the id of the entry's first global main,
\* and extraction was requested
MainIsEntryMain ==
    program.main_func_index >= 0
    => /\ rs.extract_program_main = 1
       /\ GlobalMains(rs.ast["entry"]) # {}
       /\ program.main_func_index =
            rs.ast["entry"].defs[
                FirstOf(GlobalMains(rs.ast["entry"]))].storage_id

DuplicateMainReported(a, i) ==
    \E k \in 1..Len(a.resultmsg.messages) :
        /\ a.resultmsg.messages[k].type = "ERROR"
        /\ a.resultmsg.messages[k].message = MsgDuplicateMain
        /\ a.resultmsg.messages[k].line = i - 1

\* what the claim says of an entry file with two or more global mains
DuplicateMainHandled ==
    /\ \A i \in GlobalMains(rs.ast["entry"]) :
        i # FirstOf(GlobalMains(rs.ast["entry"]))
        => /\ DuplicateMainReported(rs.ast["entry"], i)
           /\ rs.ast["entry"].defs[i].bytecode_func_id >= 0
           /\ rs.ast["entry"].defs[i].bytecode_func_id < func_count(program)
           /\ rs.ast["entry"].defs[i].bytecode_func_id #
                program.main_func_index
    /\ ~rs.ast["entry"].resultmsg.success
    /\ ~rs.project.success
    /\ program.main_func_index =
            rs.ast["entry"].defs[
                FirstOf(GlobalMains(rs.ast["entry"]))].storage_id
    /\ program.main_func_index >= 0
    /\ \A i \in 1..Len(rs.ast["entry"].defs) :
        rs.ast["entry"].defs[i].type = "funcdef"
        => rs.ast["entry"].defs[i].bytecode_func_id >= 0

WithoutExtension(f) ==
    SubSeq(rs.ast[f].relpath, 1, Len(rs.ast[f].relpath) - 4)

HasDot(s) == \E i \in 1..Len(s) : s[i] = "."

\* the module paths the derivation is to give: m.h64 and ./m.h64 are
\* module "m", d/n.h64 is "d.n", e.h64 is "e"; the others keep a dot
ExpectedModulePath(relpath) ==
    CASE relpath = <<"m", ".", "h", "6", "4">> -> "m"
      [] relpath = <<".", "/", "m", ".", "h", "6", "4">> -> "m"
      [] relpath = <<"d", "/", "n", ".", "h", "6", "4">> -> "d.n"
      [] relpath = <<"e", ".", "h", "6", "4">> -> "e"
      [] OTHER -> NULL

\* the dots diagnostic is among the messages of file f
DotsDiagnosed(f) ==
    \E k \in 1..Len(rs.ast[f].resultmsg.messages) :
        /\ rs.ast[f].resultmsg.messages[k].type = "ERROR"
        /\ rs.ast[f].resultmsg.messages[k].message = MsgDots

\* no definition of file f has storage or a function id
NothingRegisteredFrom(f) ==
    \A i \in 1..Len(rs.ast[f].defs) :
        /\ rs.ast[f].defs[i].storage_set = 0
        /\ rs.ast[f].defs[i].bytecode_func_id = -1

\* the module path step of scoperesolver_BuildASTGlobalStorage has run on f,
\* a file that was located in its project
ModulePathStepRan(f) ==
    /\ rs.pc # "off"
    /\ rs.ast[f].global_storage_built = 1
    /\ rs.ast[f].located

\* C15 as stated: once the module path step has run on a file, d/n.h64 has
\* module path "d.n" (suffix removed, normalized, separators replaced); if
\* a '.' remains in the relative path after removing the extension, the
\* dots diagnostic is added, module_path stays unset and nothing of the
\* file is registered.
C15_ModulePathDerivation ==
    \A f \in Files :
        ModulePathStepRan(f)
        => IF HasDot(WithoutExtension(f))
           THEN /\ rs.ast[f].module_path = NULL
                /\ DotsDiagnosed(f)
                /\ NothingRegisteredFrom(f)
           ELSE rs.ast[f].module_path =
                    ExpectedModulePath(rs.ast[f].relpath)

\* C15, amended: the dot test is made on the normalized path, so that a
\* leading "./" is no dot; and when an allocation of the step fails there
\* is neither module path nor diagnostic.
C15_ModulePathOfNormalizedPath ==
    \A f \in Files :
        ModulePathStepRan(f)
        => IF ExpectedModulePath(rs.ast[f].relpath) = NULL
           THEN /\ rs.ast[f].module_path = NULL
                /\ failures = 0 => DotsDiagnosed(f)
                /\ NothingRegisteredFrom(f)
           ELSE \/ rs.ast[f].module_path =
                        ExpectedModulePath(rs.ast[f].relpath)
                \/ failures > 0 /\ rs.ast[f].module_path = NULL

\* the entry file is module "m" and has registered a function, the
\* imported file d/n.x.h64 got the dots diagnostic and registered nothing
C15_Witness ==
    /\ Resolved
    /\ rs.ast["entry"].module_path = "m"
    /\ \E i \in 1..Len(rs.ast["entry"].defs) :
            rs.ast["entry"].defs[i].bytecode_func_id >= 0
    /\ ModulePathStepRan("imp")
    /\ HasDot(WithoutExtension("imp"))
    /\ DotsDiagnosed("imp")
    /\ rs.ast["imp"].module_path = NULL
    /\ NothingRegisteredFrom("imp")

\* the ASTs the import statements of file f refer to
ImportedBy(f) ==
    {rs.ast[f].defs[i].referenced_ast : i \in 1..Len(rs.ast[f].defs)}
        \ {"none"}

\* the ASTs reachable from the entry through loaded imports (the model has
\* chains of two imports at most)
ReachableFromEntry ==
    LET direct == {"entry"} \cup ImportedBy("entry")
    IN  direct \cup UNION {ImportedBy(f) : f \in direct}

\* the global storage of file f is built: every global function has its
\* storage reference
GlobalStorageBuilt(f) ==
    /\ rs.ast[f].global_storage_built = 1
    /\ \A i \in 1..Len(rs.ast[f].defs) :
        (rs.ast[f].defs[i].type = "funcdef"
            /\ rs.ast[f].defs[i].is_global = 1)
        => rs.ast[f].defs[i].storage_set = 1

\* scoperesolver_ResolveAST returned 1 with both success flags set
ResolvedSuccessfully ==
    /\ Resolved
    /\ rs.ret = 1
    /\ rs.project.success
    /\ rs.ast["entry"].resultmsg.success

\* C18: after scoperesolver_ResolveAST on the entry returns successfully,
\* every AST reachable from the entry through loaded imports, imports of
\* imports included, has its global storage built.
C18_ReachableStorageBuilt ==
    ResolvedSuccessfully
    => \A f \in ReachableFromEntry : GlobalStorageBuilt(f)

---------------------------------------------------------------------------
(* Scope resolver, identifier pass                                         *)
(* (_resolvercallback_ResolveIdentifiers_visit_out, scoperesolver.c        *)
(* 470-954).  The file under resolution has the functions F, G inside F,   *)
(* H inside G, a local variable v of F whose initializer holds the inline  *)
(* function I, a global variable w, and the import scope-def b.  The pass  *)
(* visits the identifier nodes of the file's references in post-order:     *)
(* the names of a dotted reference from left to right.  The line of a      *)
(* node is its position in that order.                                     *)

\* longest module path of a dotted reference (globallimits.h is not among
\* the sources; the model scales the limit down)
H64LIMIT_IMPORTCHAINLEN == 2
\* number of references in the file
MaxRefs == 2

Funcs == {"F", "G", "H", "I"}

\* surroundingfunc of a function node (asthelpers.c is not among the
\* sources): the function it is nested in
SurroundingFuncOf ==
    [f \in Funcs |->
        CASE f = "F" -> "none"
          [] f = "G" -> "F"
          [] f = "H" -> "G"
          [] f = "I" -> "F"]

\* isinsideclosure(expr): the function around expr is itself nested in a
\* function
isinsideclosure(n) ==
    /\ n.func # "none"
    /\ SurroundingFuncOf[n.func] # "none"

NoStorage == [set |-> 0, type |-> "NONE", id |-> 0]
SetStorage(type, id) == [set |-> 1, type |-> type, id |-> id]

\* global scopes (name_to_declaration_map) of the importable modules, after
\* their global storage was built: module b declares f, module b.c
\* declares f and g
ModuleScopes ==
    [m \in {"b", "b.c"} |->
        IF m = "b"
        THEN [d \in {"f"} |->
                [storage |-> SetStorage("GLOBALFUNCSLOT", 0),
                 everused |-> 0]]
        ELSE [d \in {"f", "g"} |->
                [storage |-> IF d = "f"
                             THEN SetStorage("GLOBALFUNCSLOT", 1)
                             ELSE SetStorage("GLOBALVARSLOT", 0),
                 everused |-> 0]]]

\* an import statement with its loaded AST
ImportStmt(elements, module) ==
    [import_elements |-> elements, referenced_ast |-> module]

\* the import statements of the scope-def b: its declaration followed by
\* the additional declarations merged into it
ImportDecls ==
    {<<ImportStmt(<<"b">>, "b")>>,
     <<ImportStmt(<<"b", "c">>, "b.c")>>,
     <<ImportStmt(<<"b">>, "b"), ImportStmt(<<"b", "c">>, "b.c")>>,
     <<ImportStmt(<<"b", "c">>, "b.c"), ImportStmt(<<"b">>, "b")>>}

\* the scope-defs the references of the file resolve to (scope_QueryItem)
FileScopeDefs(imports) ==
    [name \in {"v", "w", "b"} |->
        CASE name = "v" ->
                [type |-> "VARDEF", func |-> "F", is_global |-> 0,
                 storage |-> NoStorage, imports |-> <<>>,
                 everused |-> 0, closurebound |-> 0]
          [] name = "w" ->
                [type |-> "VARDEF", func |-> "none", is_global |-> 1,
                 storage |-> SetStorage("GLOBALVARSLOT", 0),
                 imports |-> <<>>,
                 everused |-> 0, closurebound |-> 0]
          [] name = "b" ->
                [type |-> "IMPORT", func |-> "none", is_global |-> 1,
                 storage |-> NoStorage, imports |-> imports,
                 everused |-> 0, closurebound |-> 0]]

\* a reference: the names of the dotted expression, the function around
\* it, and whether it lies inside the declaration of its first name
Reference(chain, func, indecl) ==
    [chain |-> chain, func |-> func, indecl |-> indecl]

\* the references a file may hold: v from F, G, H and from its own
\* initializer (directly, or inside I); w from the top level, from G and
\* from its own initializer; dotted references through b
References ==
    {Reference(<<"v">>, f, FALSE) : f \in {"F", "G", "H"}}
    \cup {Reference(<<"v">>, f, TRUE) : f \in {"F", "I"}}
    \cup {Reference(<<"w">>, f, FALSE) : f \in {"none", "G"}}
    \cup {Reference(<<"w">>, "none", TRUE)}
    \cup {Reference(c, f, FALSE) :
            c \in {<<"b">>, <<"b", "f">>, <<"b", "g">>, <<"b", "c", "f">>,
                   <<"b", "c", "g">>, <<"b", "c", "c", "f">>},
            f \in {"none", "G"}}

\* the identifier nodes of reference number r
RefNodes(ref, r) ==
    [k \in 1..Len(ref.chain) |->
        [value |-> ref.chain[k], ref |-> r, pos |-> k,
         func |-> ref.func, indecl |-> ref.indecl,
         storage |-> NoStorage, resolved_to_def |-> NULL,
         resolved_to_expr |-> 0]]

RECURSIVE AllNodes(_, _)
AllNodes(refs, r) ==
    IF r > Len(refs) THEN <<>>
    ELSE RefNodes(refs[r], r) \o AllNodes(refs, r + 1)

\* _storageinfo of a function: NULL until a variable is bound to it
NoStorageInfo == [allocated |-> FALSE, closureboundvars |-> <<>>]

\* the state at the start of the identifier pass
IdentifiersStart(refs, imports) ==
    [pc |-> "visit", refs |-> refs, nodes |-> AllNodes(refs, 1), i |-> 1,
     defs |-> FileScopeDefs(imports),
     storageinfo |-> [f \in Funcs |-> NoStorageInfo],
     modules |-> ModuleScopes,
     resultmsg |-> NewResult,
     hadoutofmemory |-> 0, hadunexpectederror |-> 0, ret |-> 1]

MsgImportChain == "unexpected import chain exceeding maximum nesting"
MsgNotImported ==
    "unexpected reference to module path, not found among this file's imports"
MsgModuleUse ==
    "unexpected use of module, instead of accessing any element from the module via \".\""
MsgUnknownInModule == "unexpected unknown identifier not found in module"

\* the allocations of one visit that may fail
NoFail == [kind |-> "none", at |-> "none"]
IdentifierFail ==
    {NoFail}
    \cup {[kind |-> k, at |-> f] :
            k \in {"einfo", "boundvars"}, f \in Funcs \ {"F"}}
    \cup {[kind |-> k, at |-> "none"] :
            k \in {"imppath", "message", "membername"}}

\* the visit returns ret; 0 is returned with hadoutofmemory set
VisitReturns(s, p, ret) ==
    [s |-> IF ret = 0 THEN [s EXCEPT !.hadoutofmemory = 1] ELSE s,
     p |-> p, ret |-> ret]

\* a binding loop that ends after the innermost closure
NextClosure_Stop(closure) == "none"

\* line 656: the next closure of the binding loop
NextClosure(closure) == SurroundingFuncOf[closure]

\* lines 624-657: every closure from the reference up to the function of
\* the variable binds the scope-def
RECURSIVE BindClosures(_, _, _, _, _)
BindClosures(storageinfo, def, closure, localvarfunc, fail) ==
    IF closure = "none" \/ closure = localvarfunc
    THEN [storageinfo |-> storageinfo, ret |-> 1]
    ELSE IF ~storageinfo[closure].allocated
            /\ fail = [kind |-> "einfo", at |-> closure]
    THEN [storageinfo |-> storageinfo, ret |-> 0]
    ELSE IF fail = [kind |-> "boundvars", at |-> closure]
    THEN [storageinfo |->
            [storageinfo EXCEPT ![closure].allocated = TRUE],
          ret |-> 0]
    ELSE BindClosures(
            [storageinfo EXCEPT
                ![closure] = [allocated |-> TRUE,
                              closureboundvars |->
                                Append(@.closureboundvars, def)]],
            def, NextClosure(closure), localvarfunc, fail)

\* lines 662-671: the storage of the declaration is copied to the node
CopyLocalStorage(s, name) ==
    IF s.defs[name].storage.set = 1
    THEN [s EXCEPT !.nodes[s.i].storage = s.defs[name].storage]
    ELSE IF s.defs[name].is_global = 1
    THEN [s EXCEPT !.hadunexpectederror = 1]
    ELSE s

\* lines 612-659, with the result b of the binding loop
FileLocal_Bound(s, p, name, b) ==
    IF b.ret = 0
    THEN VisitReturns([s EXCEPT !.storageinfo = b.storageinfo], p, 0)
    ELSE VisitReturns(
            CopyLocalStorage([s EXCEPT !.storageinfo = b.storageinfo],
                             name),
            p, 1)

\* lines 588-671: the identifier names a file-local variable
FileLocal(s, p, n, fail) ==
    IF n.indecl
    THEN VisitReturns(CopyLocalStorage(s, n.value), p, 1)
    ELSE IF isinsideclosure(n) /\ s.defs[n.value].type = "VARDEF"
            /\ s.defs[n.value].func # "none"
    THEN FileLocal_Bound(
            [s EXCEPT !.defs[n.value].everused = 1,
                      !.defs[n.value].closurebound = 1],
            p, n.value,
            BindClosures(s.storageinfo, n.value, n.func,
                         s.defs[n.value].func, fail))
    ELSE VisitReturns(
            CopyLocalStorage([s EXCEPT !.defs[n.value].everused = 1],
                             n.value),
            p, 1)

\* lines 678-723: the number of leading names collected as the module
\* path, or -1 when the chain exceeds the limit.  The walk goes on while
\* two more member accesses follow, so the last name is never collected.
RECURSIVE AccessedElementsCount(_, _)
AccessedElementsCount(chain, count) ==
    IF count + 2 <= Len(chain)
    THEN IF count + 1 >= H64LIMIT_IMPORTCHAINLEN + 1
         THEN -1
         ELSE AccessedElementsCount(chain, count + 1)
    ELSE count

\* a comparison that accepts a statement whose elements only begin with
\* the accessed ones
ImportMatches_Prefix(val, accessed) ==
    /\ Len(val.import_elements) >= Len(accessed)
    /\ \A k \in 1..Len(accessed) : accessed[k] = val.import_elements[k]

\* lines 732-747: one import statement names exactly the accessed elements
ImportMatches(val, accessed) ==
    /\ Len(val.import_elements) = Len(accessed)
    /\ \A k \in 1..Len(accessed) : accessed[k] = val.import_elements[k]

\* lines 726-750: the last matching statement among the declaration and
\* the additional declarations, 0 when none matches
MapTo(imports, accessed) ==
    LET matching == {j \in 1..Len(imports) :
                        ImportMatches(imports[j], accessed)}
    IN  IF matching = {} THEN 0
        ELSE CHOOSE j \in matching : \A k \in matching : k <= j

\* a diagnostic for the node under visit is added and the visit returns
Diagnose(s, p, message, fail) ==
    IF fail.kind = "message"
    THEN VisitReturns(s, p, 0)
    ELSE VisitReturns(
            [s EXCEPT !.resultmsg =
                result_AddMessage(@, "ERROR", message, NoUri, s.i,
                                  FALSE).r],
            p, 1)

\* lines 859-910: the item is looked up in the global scope of the
\* imported module; its storage goes to the node under visit, and the
\* scope-def of the import is marked as used
ImportItem(s, p, n, mapto, refitemname, fail) ==
    LET scope == s.modules[s.defs[n.value].imports[mapto].referenced_ast]
    IN  IF refitemname \notin DOMAIN scope
        THEN Diagnose([s EXCEPT !.nodes[s.i].resolved_to_expr = mapto],
                      p, MsgUnknownInModule, fail)
        ELSE VisitReturns(
                [s EXCEPT
                    !.nodes[s.i].resolved_to_expr = mapto,
                    !.nodes[s.i].storage =
                        IF scope[refitemname].storage.set = 1
                        THEN scope[refitemname].storage
                        ELSE @,
                    !.defs[n.value].everused = 1],
                p, 1)

\* lines 725-858, for the accessed elements collected
ImportMapped(s, p, n, chain, count, fail) ==
    LET mapto == MapTo(s.defs[n.value].imports, SubSeq(chain, 1, count))
    IN  IF fail.kind = "imppath" THEN VisitReturns(s, p, 0)
        ELSE IF mapto = 0 THEN Diagnose(s, p, MsgNotImported, fail)
        ELSE IF count >= Len(chain)
        THEN Diagnose([s EXCEPT !.nodes[s.i].resolved_to_expr = mapto],
                      p, MsgModuleUse, fail)
        ELSE ImportItem(s, p, n, mapto, chain[count + 1], fail)

\* lines 672-910: the identifier is the first name of a module path
ImportRef(s, p, n, fail) ==
    IF AccessedElementsCount(s.refs[n.ref].chain, 1) < 0
    THEN Diagnose(s, p, MsgImportChain, fail)
    ELSE ImportMapped(s, p, n, s.refs[n.ref].chain,
                      AccessedElementsCount(s.refs[n.ref].chain, 1), fail)

\* lines 937-951: the name on the right of a member access is interned
MemberName_Interned(s, p, r) ==
    IF r.id < 0 THEN VisitReturns(s, p, 0)
    ELSE VisitReturns(s, r.p, 1)

MemberName(s, p, n, fail) ==
    IF n.storage.set = 1 THEN VisitReturns(s, p, 1)
    ELSE MemberName_Interned(
            s, p,
            h64debugsymbols_MemberNameToMemberNameId(
                p, n.value, 1, fail.kind = "membername"))

\* lines 476-480 and 582-583: an identifier that is not the right side of
\* a member access is resolved to its scope-def
Resolve_First(s, p, n, fail) ==
    IF s.defs[n.value].type = "IMPORT"
    THEN ImportRef(s, p, n, fail)
    ELSE FileLocal(s, p, n, fail)

_resolvercallback_ResolveIdentifiers_visit_out(s, p, n, fail) ==
    IF n.pos = 1
    THEN Resolve_First(
            [s EXCEPT !.nodes[s.i].resolved_to_def = n.value,
                      !.nodes[s.i].resolved_to_expr = 1],
            p, n, fail)
    ELSE MemberName(s, p, n, fail)

InitIdentifiers ==
    /\ program \in ProgramsBeforeResolve
    /\ call = NoCall
    /\ registered = {}
    /\ failures = 0
    /\ rs = NoResolve
    /\ vm = NoVm
    /\ \E imports \in ImportDecls, len \in 1..MaxRefs :
        \E refs \in [1..len -> References] :
            ir = IdentifiersStart(refs, imports)

\* asttransform_Apply goes to the next node, or stops at a visit that
\* returned 0
Identifier_Returns(r) ==
    /\ Counted(r.ret = 0)
    /\ program' = r.p
    /\ ir' = IF r.ret = 0
             THEN [r.s EXCEPT !.pc = "done", !.ret = 0]
             ELSE [r.s EXCEPT !.i = @ + 1]
    /\ UNCHANGED <<call, registered, rs, vm>>

ResolveIdentifiers_Visit ==
    /\ ir.pc = "visit"
    /\ ir.i <= Len(ir.nodes)
    /\ \E fail \in IdentifierFail :
        Identifier_Returns(
            _resolvercallback_ResolveIdentifiers_visit_out(
                ir, program, ir.nodes[ir.i], fail))

\* every node was visited: asttransform_Apply returns 1
ResolveIdentifiers_Finish ==
    /\ ir.pc = "visit"
    /\ ir.i > Len(ir.nodes)
    /\ ir' = [ir EXCEPT !.pc = "done", !.ret = 1]
    /\ UNCHANGED <<program, call, registered, failures, rs, vm>>

NextIdentifiers ==
    \/ ResolveIdentifiers_Visit
    \/ ResolveIdentifiers_Finish

SpecIdentifiers == InitIdentifiers /\ [][NextIdentifiers]_vars

---------------------------------------------------------------------------
(* Claims on the identifier pass *)

\* the visit of node k has returned 1
Visited(k) == k < ir.i

\* the visit of node k has returned 0
VisitFailed(k) == ir.pc = "done" /\ ir.ret = 0 /\ k = ir.i

\* an error diagnostic was added for node k
DiagnosedAt(k) ==
    \E j \in 1..Len(ir.resultmsg.messages) :
        /\ ir.resultmsg.messages[j].type = "ERROR"
        /\ ir.resultmsg.messages[j].line = k

\* the dotted expression node k belongs to
ChainOf(k) == ir.refs[ir.nodes[k].ref].chain

\* node k is the x1 of a dotted reference x1.....xn.d through an import
\* scope-def, n within the limit
ImportChainAt(k) ==
    /\ ir.nodes[k].pos = 1
    /\ ir.defs[ir.nodes[k].value].type = "IMPORT"
    /\ Len(ChainOf(k)) >= 2
    /\ Len(ChainOf(k)) - 1 <= H64LIMIT_IMPORTCHAINLEN

\* x1.....xn and d of the reference that starts at node k
ModulePathOf(k) == SubSeq(ChainOf(k), 1, Len(ChainOf(k)) - 1)
ItemOf(k) == ChainOf(k)[Len(ChainOf(k))]

\* the import statements on the scope-def of node k that have exactly the
\* elements x1.....xn
ExactImports(k) ==
    {j \in 1..Len(ir.defs[ir.nodes[k].value].imports) :
        ir.defs[ir.nodes[k].value].imports[j].import_elements
            = ModulePathOf(k)}

\* the global scope of the module import statement j of node k refers to
ScopeOfImport(k, j) ==
    ir.modules[ir.defs[ir.nodes[k].value].imports[j].referenced_ast]

\* one of the import statements has exactly the elements x1.....xn and the
\* global scope of its module declares d
ImportDeclares(k) ==
    \E j \in ExactImports(k) : ItemOf(k) \in DOMAIN ScopeOfImport(k, j)

\* the nodes of the reference that starts at node k
NodesOfReference(k) == k..(k + Len(ChainOf(k)) - 1)

\* the reference at node k is resolved to item d of an import statement
\* with exactly its module path, and carries the storage of d
ResolvedToItem(k) ==
    /\ ir.nodes[k].resolved_to_expr \in ExactImports(k)
    /\ \E m \in NodesOfReference(k) :
        ir.nodes[m].storage
            = ScopeOfImport(k, ir.nodes[k].resolved_to_expr)[ItemOf(k)]
                .storage

C12_StorageOnItemNode ==
    \A k \in 1..Len(ir.nodes) :
        (/\ ImportChainAt(k)
         /\ ImportDeclares(k)
         /\ Visited(k + Len(ChainOf(k)) - 1))
        => ir.nodes[k + Len(ChainOf(k)) - 1].storage
            = ScopeOfImport(k, ir.nodes[k].resolved_to_expr)[ItemOf(k)]
                .storage

\* C13: after the pass over a file that imports b and refers to b.f, the
\* scope-def of f in the global scope of module b has everused set.
C13_ImportedItemEverUsed ==
    (ir.pc = "done" /\ ir.ret = 1)
    => \A k \in 1..Len(ir.nodes) :
        (/\ ImportChainAt(k)
         /\ ImportDeclares(k))
        => ScopeOfImport(k, ir.nodes[k].resolved_to_expr)[ItemOf(k)]
            .everused = 1

\* the functions from g up to, but without, f
RECURSIVE FuncsUpTo(_, _)
FuncsUpTo(g, f) ==
    IF g = "none" \/ g = f THEN {}
    ELSE {g} \cup FuncsUpTo(SurroundingFuncOf[g], f)

\* function g is nested in function f
RECURSIVE NestedIn(_, _)
NestedIn(g, f) ==
    /\ g # "none"
    /\ \/ SurroundingFuncOf[g] = f
       \/ NestedIn(SurroundingFuncOf[g], f)

\* node k refers to a variable definition local to a function F from
\* inside a function nested in F
ClosureRefAt(k) ==
    /\ ir.nodes[k].pos = 1
    /\ ir.defs[ir.nodes[k].value].type = "VARDEF"
    /\ ir.defs[ir.nodes[k].value].func # "none"
    /\ NestedIn(ir.nodes[k].func, ir.defs[ir.nodes[k].value].func)

\* the scope-def of node k is marked and listed by every function from
\* the one around node k up to, but without, the declaring function
ClosureBound(k) ==
    /\ ir.defs[ir.nodes[k].value].closurebound = 1
    /\ \A g \in FuncsUpTo(ir.nodes[k].func,
                          ir.defs[ir.nodes[k].value].func) :
        \E j \in 1..Len(ir.storageinfo[g].closureboundvars) :
            ir.storageinfo[g].closureboundvars[j] = ir.nodes[k].value

\* C14 as stated: after the identifier pass, for every reference to a
\* local variable of F from inside a function G nested in F, the scope-def
\* is closure-bound and listed by every function from G up to, but
\* without, F.
C14_ClosureBookkeeping ==
    (ir.pc = "done" /\ ir.ret = 1)
    => \A k \in 1..Len(ir.nodes) : ClosureRefAt(k) => ClosureBound(k)

\* C14, amended: it holds for the references that lie outside the
\* declaration of the variable, as soon as they were visited.
C14_ClosureBookkeepingOutsideDeclaration ==
    \A k \in 1..Len(ir.nodes) :
        (ClosureRefAt(k) /\ ~ir.nodes[k].indecl /\ Visited(k))
        => ClosureBound(k)

\* v was referenced from H: H and G list it, F does not
C14_Witness ==
    /\ ir.pc = "done"
    /\ ir.ret = 1
    /\ \E k \in 1..Len(ir.nodes) :
        /\ ir.nodes[k].value = "v"
        /\ ir.nodes[k].func = "H"
        /\ ClosureRefAt(k)
        /\ ClosureBound(k)
    /\ ir.storageinfo["H"].closureboundvars = <<"v">>
    /\ ir.storageinfo["G"].closureboundvars = <<"v">>
    /\ ir.storageinfo["F"].closureboundvars = <<>>

---------------------------------------------------------------------------
(* Scope resolver, storage of a class and its members                      *)
(* (scoperesolver_ComputeItemStorage, scoperesolver.c 92-347, and the      *)
(* visitor that calls it, 349-455).  The file holds one class C at global  *)
(* scope; the expressions are listed in the order the visitor leaves       *)
(* them, the members before their class.                                   *)

\* number of members of the class
MaxMembers == 3

\* a member variable; nontrivial: it has an initializer other than none
MemberVar(name, nontrivial) ==
    [type |-> "VARDEF", name |-> name, is_global |-> 0,
     nontrivial |-> nontrivial, storage |-> NoStorage,
     bytecode_func_id |-> -1]

\* a method
Method(name) ==
    [type |-> "FUNCDEF", name |-> name, is_global |-> 0,
     nontrivial |-> FALSE, storage |-> NoStorage, bytecode_func_id |-> -1]

\* the class definition, in the global scope
ClassDef(name) ==
    [type |-> "CLASSDEF", name |-> name, is_global |-> 1,
     nontrivial |-> FALSE, storage |-> NoStorage, bytecode_func_id |-> -1]

Members ==
    {MemberVar(n, t) : n \in {"x", "y"}, t \in BOOLEAN}
    \cup {Method("x"), Method("m")}

ClassBodies ==
    UNION {[1..len -> Members] : len \in 0..MaxMembers}

\* the expressions of the file: the members, then the class that owns them
ClassAst(body) == body \o <<ClassDef("C")>>

\* lines 143-153, 199-209: the class definition above a member
OwningClass(exprs) == Len(exprs)

\* isnullvardef, lines 33-39
isnullvardef(expr) == expr.type = "VARDEF" /\ ~expr.nontrivial

MsgComputeStorage == "internal error: failed to compute storage for expr"

\* result of scoperesolver_ComputeItemStorage
StorageResult(exprs, p, ret, outofmemory) ==
    [exprs |-> exprs, p |-> p, ret |-> ret, outofmemory |-> outofmemory]

\* lines 127-138, with the result added of h64program_AddClass
ComputeItemStorage_ClassAdded(exprs, k, added) ==
    IF added.ret < 0 THEN StorageResult(exprs, added.p, 0, 1)
    ELSE StorageResult(
            [exprs EXCEPT ![k].storage =
                SetStorage("GLOBALCLASSSLOT", added.ret)],
            added.p, 1, 0)

\* lines 102-140 for a class definition
ComputeItemStorage_ClassDef(exprs, p, k, fail) ==
    IF exprs[k].storage.set = 1 THEN StorageResult(exprs, p, 1, 0)
    ELSE ComputeItemStorage_ClassAdded(
            exprs, k,
            h64program_AddClass(p, exprs[k].name, <<"x">>, "m", fail))

\* lines 155-166, 210-221: the storage of the owning class is computed
\* first when it is not set
ComputeItemStorage_Owning(exprs, p, fail) ==
    IF exprs[OwningClass(exprs)].storage.set = 0
    THEN ComputeItemStorage_ClassDef(exprs, p, OwningClass(exprs), fail)
    ELSE StorageResult(exprs, p, 1, 0)

\* lines 187-192, with the result reg of registering "$$varinit"
ComputeItemStorage_VarInit(exprs, reg) ==
    IF reg.ret < 0 THEN StorageResult(exprs, reg.p, 0, 1)
    ELSE StorageResult(exprs, reg.p, 1, 0)

\* lines 173-192, with the result reg of h64program_RegisterClassVariable
ComputeItemStorage_VarRegistered(exprs, k, classindex, fail, reg) ==
    IF reg.ret = 0 THEN StorageResult(exprs, reg.p, 0, 1)
    ELSE IF ~isnullvardef(exprs[k])
            /\ At(reg.p.classes, classindex).hasvarinitfunc = 0
    THEN ComputeItemStorage_VarInit(
            exprs,
            h64program_RegisterHorse64Function(
                reg.p, "$$varinit", <<"x">>, 0, "m", classindex, fail))
    ELSE StorageResult(exprs, reg.p, 1, 0)

\* lines 142-194, with the result inner of the recursion into the class
ComputeItemStorage_MemberVar(k, fail, inner) ==
    IF inner.ret = 0
    THEN StorageResult(inner.exprs, inner.p, 0, inner.outofmemory)
    ELSE ComputeItemStorage_VarRegistered(
            inner.exprs, k,
            inner.exprs[OwningClass(inner.exprs)].storage.id, fail,
            h64program_RegisterClassVariable(
                inner.p, inner.exprs[OwningClass(inner.exprs)].storage.id,
                inner.exprs[k].name, fail))

\* lines 270-344, with the result reg of h64program_RegisterHorse64Function
ComputeItemStorage_MethodRegistered(exprs, k, reg) ==
    IF reg.ret < 0 THEN StorageResult(exprs, reg.p, 0, 1)
    ELSE StorageResult(
            [exprs EXCEPT ![k].bytecode_func_id = reg.ret], reg.p, 1, 0)

\* lines 196-346 for a method, with the result inner of the recursion
ComputeItemStorage_Method(k, fail, inner) ==
    IF inner.ret = 0
    THEN StorageResult(inner.exprs, inner.p, 0, inner.outofmemory)
    ELSE ComputeItemStorage_MethodRegistered(
            inner.exprs, k,
            h64program_RegisterHorse64Function(
                inner.p, inner.exprs[k].name, <<"x">>, 0, "m",
                inner.exprs[OwningClass(inner.exprs)].storage.id, fail))

\* scoperesolver_ComputeItemStorage on expression k of the file.  fail
\* names the allocation that fails: one of ClassFail, FuncFail, or "none"
scoperesolver_ComputeItemStorage(exprs, p, k, fail) ==
    IF exprs[k].type = "CLASSDEF"
    THEN ComputeItemStorage_ClassDef(exprs, p, k, fail)
    ELSE IF exprs[k].type = "VARDEF"
    THEN ComputeItemStorage_MemberVar(
            k, fail, ComputeItemStorage_Owning(exprs, p, fail))
    ELSE ComputeItemStorage_Method(
            k, fail, ComputeItemStorage_Owning(exprs, p, fail))

\* allocations that may fail during one visit
ClassStorageFail ==
    {"none", "classes", "hashmap", "func", "name", "member_intern",
     "member_bucket", "member_slot", "message"}

\* lines 431-451, with the result r of scoperesolver_ComputeItemStorage:
\* the out-of-memory return, or a diagnostic and the next expression
BuildClassStorage_Computed(s, fail, r) ==
    IF r.ret = 1
    THEN [s |-> [s EXCEPT !.exprs = r.exprs], p |-> r.p, ret |-> 1]
    ELSE IF r.outofmemory = 1
    THEN [s |-> [s EXCEPT !.exprs = r.exprs, !.hadoutofmemory = 1],
          p |-> r.p, ret |-> 0]
    ELSE IF fail = "message"
    THEN [s |-> [s EXCEPT !.exprs = r.exprs, !.hadoutofmemory = 1],
          p |-> r.p, ret |-> 0]
    ELSE [s |-> [s EXCEPT
                    !.exprs = r.exprs,
                    !.resultmsg =
                        result_AddMessage(@, "ERROR", MsgComputeStorage,
                                          <<"x">>, s.i, FALSE).r],
          p |-> r.p, ret |-> 1]

\* _resolvercallback_BuildGlobalStorage_visit_out on expression s.i: the
\* storage is computed for a global item without storage and for a
\* function without function id (lines 421-425)
BuildClassStorage_visit_out(s, p, fail) ==
    IF \/ s.exprs[s.i].is_global = 1 /\ s.exprs[s.i].storage.set = 0
       \/ s.exprs[s.i].type = "FUNCDEF"
            /\ s.exprs[s.i].bytecode_func_id < 0
    THEN BuildClassStorage_Computed(
            s, fail, scoperesolver_ComputeItemStorage(s.exprs, p, s.i, fail))
    ELSE [s |-> s, p |-> p, ret |-> 1]

\* the state before the visitor runs over the file: calls is the history
\* of the results of scoperesolver_ComputeItemStorage, allocfailed tells
\* whether an allocation has failed
ClassStorageStart(pc, body) ==
    [pc |-> pc, exprs |-> ClassAst(body), i |-> 1,
     resultmsg |-> NewResult, hadoutofmemory |-> 0, ret |-> 1,
     calls |-> <<>>, allocfailed |-> FALSE]

InitClassStorage ==
    /\ program \in ProgramsBeforeResolve
    /\ call = NoCall
    /\ registered = {}
    /\ failures = 0
    /\ ir = NoIdentifiers
    /\ vm = NoVm
    /\ \E body \in ClassBodies : rs = ClassStorageStart("visit", body)

\* the visit has returned r; without is its result had no allocation
\* failed
ClassVisit_Returns(fail, r, without) ==
    /\ fail # "none" => r # without
    /\ Counted(r # without)
    /\ program' = r.p
    /\ rs' = IF r.ret = 0
             THEN [r.s EXCEPT !.pc = "done", !.ret = 0,
                              !.allocfailed = @ \/ r # without]
             ELSE [r.s EXCEPT !.i = @ + 1,
                              !.allocfailed = @ \/ r # without]
    /\ UNCHANGED <<call, registered, ir, vm>>

BuildClassStorage_Visit ==
    /\ rs.pc = "visit"
    /\ rs.i <= Len(rs.exprs)
    /\ \E fail \in ClassStorageFail :
        ClassVisit_Returns(
            fail, BuildClassStorage_visit_out(rs, program, fail),
            BuildClassStorage_visit_out(rs, program, "none"))

\* every expression was visited: asttransform_Apply returns 1
BuildClassStorage_Finish ==
    /\ rs.pc = "visit"
    /\ rs.i > Len(rs.exprs)
    /\ rs' = [rs EXCEPT !.pc = "done", !.ret = 1]
    /\ UNCHANGED <<program, call, registered, failures, ir, vm>>

NextClassStorage ==
    \/ BuildClassStorage_Visit
    \/ BuildClassStorage_Finish

SpecClassStorage == InitClassStorage /\ [][NextClassStorage]_vars

\* scoperesolver_ComputeItemStorage applied to the members of a class one
\* after the other, as its member branches (lines 142-346) provide for
InitMemberStorage ==
    /\ program \in ProgramsBeforeResolve
    /\ call = NoCall
    /\ registered = {}
    /\ failures = 0
    /\ ir = NoIdentifiers
    /\ vm = NoVm
    /\ \E body \in ClassBodies :
        /\ body # <<>>
        /\ rs = ClassStorageStart("compute", body)

\* the call has returned r; without is its result had no allocation failed
ComputeItemStorage_Returns(fail, r, without) ==
    /\ fail # "none" => r # without
    /\ Counted(r # without)
    /\ program' = r.p
    /\ rs' = [rs EXCEPT
                !.exprs = r.exprs,
                !.i = @ + 1,
                !.calls = Append(@, [ret |-> r.ret,
                                     outofmemory |-> r.outofmemory]),
                !.allocfailed = @ \/ r # without]
    /\ UNCHANGED <<call, registered, ir, vm>>

ComputeItemStorage_Apply ==
    /\ rs.pc = "compute"
    /\ rs.i < Len(rs.exprs)
    /\ \E fail \in ClassStorageFail \ {"message"} :
        ComputeItemStorage_Returns(
            fail,
            scoperesolver_ComputeItemStorage(rs.exprs, program, rs.i, fail),
            scoperesolver_ComputeItemStorage(rs.exprs, program, rs.i,
                                             "none"))

\* the storage of every member was asked for
ComputeItemStorage_Done ==
    /\ rs.pc = "compute"
    /\ rs.i >= Len(rs.exprs)
    /\ rs' = [rs EXCEPT !.pc = "done"]
    /\ UNCHANGED <<program, call, registered, failures, ir, vm>>

NextMemberStorage ==
    \/ ComputeItemStorage_Apply
    \/ ComputeItemStorage_Done

SpecMemberStorage == InitMemberStorage /\ [][NextMemberStorage]_vars

---------------------------------------------------------------------------
(* Claims on the storage of class members *)

\* C16: the failures of scoperesolver_ComputeItemStorage are categorized:
\* the visitor stops with hadoutofmemory set only when an allocation has
\* failed; after a failure for a duplicate name it goes on to the end of
\* the file.
C16_FailuresCategorized ==
    /\ rs.hadoutofmemory = 1 => rs.allocfailed
    /\ (rs.pc = "done" /\ ~rs.allocfailed) => rs.ret = 1

\* the members of the class are variables of distinct names
DistinctMemberVars ==
    /\ \A k \in 1..(Len(rs.exprs) - 1) : rs.exprs[k].type = "VARDEF"
    /\ \A k, j \in 1..(Len(rs.exprs) - 1) :
        rs.exprs[k].name = rs.exprs[j].name => k = j

\* the members with an initializer other than none
NonTrivialVars ==
    {k \in 1..(Len(rs.exprs) - 1) :
        rs.exprs[k].type = "VARDEF" /\ rs.exprs[k].nontrivial}

\* the methods named "$$varinit" of the class of the file
VarInitMethods ==
    IF rs.exprs[Len(rs.exprs)].storage.set = 0 THEN {}
    ELSE LET cls == At(program.classes,
                       rs.exprs[Len(rs.exprs)].storage.id)
         IN  {j \in 1..Len(cls.method_global_name_idx) :
                cls.method_global_name_idx[j]
                    = IndexOf(program.member_name, "$$varinit")}

\* C17: for a class with k >= 1 member variables with non-trivial
\* initializers, computing the storage of all of them succeeds and
\* registers exactly one "$$varinit" function with the class.
C17_OneVarInitFunction ==
    (/\ rs.pc = "done"
     /\ ~rs.allocfailed
     /\ DistinctMemberVars
     /\ NonTrivialVars # {})
    => /\ \A k \in 1..Len(rs.calls) : rs.calls[k].ret = 1
       /\ Cardinality(VarInitMethods) = 1

---------------------------------------------------------------------------
(* Bytecode interpreter (src/horse64/vmexec.c).  The stack, the pool       *)
(* allocator and the VM strings (stack.h, poolalloc.h, vmstrings.h) are    *)
(* not among the sources: a stack is the sequence of its slots, a pool     *)
(* the sequence of the values allocated from it.                           *)

\* number of stack slots
MaxSlots == 2
\* longest string constant
MaxStrLen == 2
\* number of setconst instructions of a function
MaxInstructions == 2

CodePoints == {65, 66}
ConstStrings == UNION {[1..n -> CodePoints] : n \in 0..MaxStrLen}

\* the pool of the executing thread and a pool of another owner
Pools == {"thread", "other"}

NoPtr == [pool |-> "none", index |-> 0]

\* valuecontent
ValueContent(type, int_value, str, ptr) ==
    [type |-> type, int_value |-> int_value,
     constpreallocstr_value |-> str, ptr_value |-> ptr]

NoneValue == ValueContent("NONE", 0, <<>>, NoPtr)
IntValue(v) == ValueContent("INT64", v, <<>>, NoPtr)
PreallocStr(s) == ValueContent("CONSTPREALLOCSTR", 0, s, NoPtr)
GcValue(ptr) == ValueContent("GCVAL", 0, <<>>, ptr)

\* h64instruction_setconst and the instructions without implementation
SetConst(slot, content) ==
    [type |-> "SETCONST", slot |-> slot, content |-> content]
ReturnValue ==
    [type |-> "RETURNVALUE", slot |-> 0, content |-> NoneValue]

SetConsts ==
    {SetConst(slot, content) :
        slot \in 0..(MaxSlots - 1),
        content \in {PreallocStr(s) : s \in ConstStrings}
                        \cup {IntValue(7)}}

\* the instructions of a function: up to len setconst instructions, then
\* an instruction that is not implemented
InstructionStreams(len) ==
    UNION {{code \o <<ReturnValue>> : code \in [1..n -> SetConsts]} :
            n \in 0..len}

\* a string value on a heap pool
StringGcValue(str) ==
    [type |-> "STRING", heapreferencecount |-> 0,
     externalreferencecount |-> 1, str_val |-> str]

\* the slots a stack may hold when the function starts
InitialSlots == {NoneValue, IntValue(1)}

\* vmthread_RunFunction, lines 69-83: heap is the value of the local
\* `poolalloc *heap = heap;`, which is read before it is written: it is
\* the pool of the thread, another pool, or no pool at all.  hasstack:
\* vmthread->stack is not NULL.
RunFunctionStart(hasstack, slots, heap, instructions) ==
    [pc |-> "dispatch", hasstack |-> hasstack, stack |-> slots,
     thread_heap |-> "thread", heap |-> heap,
     pools |-> [q \in Pools |-> <<>>],
     instructions |-> instructions, p |-> 1, ret |-> 1,
     prev |-> [stack |-> slots, pools |-> [q \in Pools |-> <<>>],
               instructions |-> instructions],
     last |-> [done |-> FALSE, slot |-> 0, content |-> NoneValue]]

InitSetconst ==
    /\ program = h64program_New
    /\ call = NoCall
    /\ registered = {}
    /\ failures = 0
    /\ rs = NoResolve
    /\ ir = NoIdentifiers
    /\ \E hasstack \in BOOLEAN, slots \in [1..MaxSlots -> InitialSlots],
          heap \in Pools \cup {"invalid"},
          instructions \in InstructionStreams(MaxInstructions) :
            /\ ~hasstack => slots = [k \in 1..MaxSlots |-> NoneValue]
            /\ vm = RunFunctionStart(hasstack, slots, heap, instructions)

\* the state the instruction at p starts from
Snapshot(v) ==
    [v EXCEPT !.prev = [stack |-> v.stack, pools |-> v.pools,
                        instructions |-> v.instructions],
              !.last = [done |-> FALSE,
                        slot |-> v.instructions[v.p].slot,
                        content |-> v.instructions[v.p].content]]

\* the process ends in a fault
Crashed(v) == [v EXCEPT !.pc = "crashed"]

\* triggeroom, lines 89-92
triggeroom(v) == [v EXCEPT !.pc = "returned", !.ret = 0]

\* lines 127-128: the next instruction is dispatched
NextInstruction(v) == [v EXCEPT !.p = @ + 1, !.last.done = TRUE]

\* lines 100-102: the pool poolalloc_malloc is called on, the local heap
AllocationPool(v) == v.heap

\* lines 98-120: a string value is allocated and filled with the code
\* points of the instruction.  fail: "pool" (poolalloc_malloc),
\* "string" (vmstrings_Set) or "none"
SetConst_PreallocStr(v, inst, fail) ==
    IF AllocationPool(v) \notin Pools THEN Crashed(v)
    ELSE IF fail = "pool"
    THEN triggeroom([v EXCEPT !.stack[inst.slot + 1] = GcValue(NoPtr)])
    ELSE IF fail = "string"
    THEN triggeroom([v EXCEPT !.stack[inst.slot + 1] = GcValue(NoPtr)])
    ELSE NextInstruction(
            [v EXCEPT
                !.pools[AllocationPool(v)] =
                    Append(@, StringGcValue(
                                inst.content.constpreallocstr_value)),
                !.stack[inst.slot + 1] =
                    GcValue([pool |-> AllocationPool(v),
                             index |-> Len(v.pools[AllocationPool(v)])
                                        + 1])])

\* lines 121-126: the literal is copied into the slot; the value a GCVAL
\* literal points to gets the external reference count 1
SetConst_Copy(v, inst) ==
    IF inst.content.type # "GCVAL"
    THEN [v EXCEPT !.stack[inst.slot + 1] = inst.content]
    ELSE IF inst.content.ptr_value.pool \notin Pools THEN Crashed(v)
    ELSE [v EXCEPT
            !.stack[inst.slot + 1] = inst.content,
            !.pools[inst.content.ptr_value.pool]
                   [inst.content.ptr_value.index]
                   .externalreferencecount = 1]

\* inst_setconst, lines 94-129
inst_setconst(v, inst, fail) ==
    IF ~v.hasstack THEN Crashed(v)
    ELSE IF inst.content.type = "CONSTPREALLOCSTR"
    THEN SetConst_PreallocStr(v, inst, fail)
    ELSE IF SetConst_Copy(v, inst).pc = "crashed" THEN Crashed(v)
    ELSE NextInstruction(SetConst_Copy(v, inst))

\* the instruction has left the state r
Setconst_Returns(r) ==
    /\ Counted(r.pc = "returned")
    /\ vm' = r
    /\ UNCHANGED <<program, call, registered, rs, ir>>

RunFunction_Setconst ==
    /\ vm.pc = "dispatch"
    /\ vm.instructions[vm.p].type = "SETCONST"
    /\ \E fail \in {"none", "pool", "string"} :
        Setconst_Returns(
            inst_setconst(Snapshot(vm), vm.instructions[vm.p], fail))

\* lines 162-165 and the like: an instruction without implementation
\* makes the function return 0
RunFunction_NotImplemented ==
    /\ vm.pc = "dispatch"
    /\ vm.instructions[vm.p].type # "SETCONST"
    /\ vm' = [vm EXCEPT !.pc = "returned", !.ret = 0]
    /\ UNCHANGED <<program, call, registered, failures, rs, ir>>

NextSetconst ==
    \/ RunFunction_Setconst
    \/ RunFunction_NotImplemented

SpecSetconst == InitSetconst /\ [][NextSetconst]_vars

\* C19: a setconst with a CONSTPREALLOCSTR payload of n code points on
\* slot S leaves stack[S] of type GCVAL, referring to a value newly
\* allocated from the heap pool of the executing thread, of type STRING,
\* with heap reference count 0 and external reference count 1, holding
\* exactly the n code points; the payload of the instruction is not
\* modified and no other slot changes.
C19_SetconstPreallocStr ==
    (/\ vm.pc # "off"
     /\ vm.last.done
     /\ vm.last.content.type = "CONSTPREALLOCSTR")
    => /\ vm.stack[vm.last.slot + 1].type = "GCVAL"
       /\ vm.stack[vm.last.slot + 1].ptr_value.pool = vm.thread_heap
       /\ vm.stack[vm.last.slot + 1].ptr_value.index
            > Len(vm.prev.pools[vm.thread_heap])
       /\ vm.pools[vm.thread_heap]
                [vm.stack[vm.last.slot + 1].ptr_value.index]
            = StringGcValue(vm.last.content.constpreallocstr_value)
       /\ vm.instructions = vm.prev.instructions
       /\ \A k \in 1..MaxSlots :
            k # vm.last.slot + 1 => vm.stack[k] = vm.prev.stack[k]

---------------------------------------------------------------------------
(* vmexec_ExecuteProgram (vmexec.c 246-292) *)

\* number of functions of the executed program
MaxVmFuncs == 3

\* what the first instruction of a function is: an invalid instruction,
\* an instruction without implementation, or a setconst
FunctionCodes == {"invalid", "notimplemented", "setconst"}

\* the programs handed to vmexec_ExecuteProgram: main_func_index >= 0
\* (asserted at line 252), globalinit_func_index is another function or -1
VmPrograms ==
    {[main_func_index |-> mainf, globalinit_func_index |-> initf,
      code |-> code] :
        mainf \in 0..(MaxVmFuncs - 1),
        initf \in -1..(MaxVmFuncs - 1),
        code \in [0..(MaxVmFuncs - 1) -> FunctionCodes]}

\* a result of vmthread_RunFunctionWithReturnInt: its return value, whether
\* *einfo is set afterwards, or a fault
RunResult(ret, einfo, crash) ==
    [ret |-> ret, einfo |-> einfo, crash |-> crash]

\* vmthread_RunFunction on the thread of vmexec_ExecuteProgram, whose
\* stack is NULL (vmthread_New, lines 14-26).  An invalid instruction and
\* an instruction without implementation return 0 (lines 86-89, 101-205).
\* inst_setconst takes STACK_ENTRY of the NULL stack (line 95): the
\* behaviour is undefined, any result or a fault may follow.
vmthread_RunFunctionWithReturnInt(code, einfo) ==
    IF code # "setconst" THEN {RunResult(0, einfo, FALSE)}
    ELSE {RunResult(ret, e, FALSE) : ret \in {0, 1}, e \in BOOLEAN}
            \cup {RunResult(0, einfo, TRUE)}

\* an exception check that never sees an exception
UncaughtException_Ignored(r) == FALSE

\* lines 264, 283: if (einfo)
UncaughtException(r) == r.einfo

ExecuteStart(prog) ==
    [pc |-> "start", prog |-> prog, thread |-> "none", threads |-> 0,
     einfo |-> FALSE, ran |-> <<>>, result |-> 0]

InitExecute ==
    /\ program = h64program_New
    /\ call = NoCall
    /\ registered = {}
    /\ failures = 0
    /\ rs = NoResolve
    /\ ir = NoIdentifiers
    /\ \E prog \in VmPrograms :
        /\ prog.globalinit_func_index # prog.main_func_index
        /\ vm = ExecuteStart(prog)

\* vmthread_Free(mainthread); return result
ExecuteReturns(v, result) ==
    [v EXCEPT !.pc = "returned", !.thread = "freed", !.result = result]

\* lines 247-254: vmthread_New; oom: one of its allocations fails
ExecuteProgram_NewThread ==
    /\ vm.pc = "start"
    /\ \E oom \in BOOLEAN :
        /\ Counted(oom)
        /\ vm' = IF oom
                 THEN [vm EXCEPT !.pc = "returned", !.result = -1]
                 ELSE [vm EXCEPT
                        !.thread = "alive",
                        !.threads = @ + 1,
                        !.pc = IF vm.prog.globalinit_func_index >= 0
                               THEN "globalinit" ELSE "main"]
    /\ UNCHANGED <<program, call, registered, rs, ir>>

\* the function func has run on the thread with result r
Ran(v, func, r) ==
    [v EXCEPT !.einfo = r.einfo,
              !.ran = Append(@, [func |-> func, thread |-> v.threads,
                                 ret |-> r.ret, einfo |-> r.einfo])]

\* lines 255-272, with the result r of the call
GlobalInit_Returns(v, r) ==
    IF r.crash THEN [v EXCEPT !.pc = "crashed"]
    ELSE IF r.ret = 0 THEN ExecuteReturns(v, -1)
    ELSE IF UncaughtException(r) THEN ExecuteReturns(v, -1)
    ELSE [v EXCEPT !.pc = "main"]

ExecuteProgram_GlobalInit ==
    /\ vm.pc = "globalinit"
    /\ \E r \in vmthread_RunFunctionWithReturnInt(
                    vm.prog.code[vm.prog.globalinit_func_index],
                    vm.einfo) :
        vm' = GlobalInit_Returns(
                Ran(vm, vm.prog.globalinit_func_index, r), r)
    /\ UNCHANGED <<program, call, registered, failures, rs, ir>>

\* lines 273-291, with the result r of the call; the return value of main
\* is the 0 that vmthread_RunFunctionWithReturnInt stores (line 242)
Main_Returns(v, r) ==
    IF r.crash THEN [v EXCEPT !.pc = "crashed"]
    ELSE IF r.ret = 0 THEN ExecuteReturns(v, -1)
    ELSE IF UncaughtException(r) THEN ExecuteReturns(v, -1)
    ELSE ExecuteReturns(v, 0)

ExecuteProgram_Main ==
    /\ vm.pc = "main"
    /\ \E r \in vmthread_RunFunctionWithReturnInt(
                    vm.prog.code[vm.prog.main_func_index], vm.einfo) :
        vm' = Main_Returns(Ran(vm, vm.prog.main_func_index, r), r)
    /\ UNCHANGED <<program, call, registered, failures, rs, ir>>

NextExecute ==
    \/ ExecuteProgram_NewThread
    \/ ExecuteProgram_GlobalInit
    \/ ExecuteProgram_Main

SpecExecute == InitExecute /\ [][NextExecute]_vars

\* run number k was the main function
IsMainRun(k) == vm.ran[k].func = vm.prog.main_func_index

\* run number k ended in a failure or with an exception pending
RunFailed(k) == vm.ran[k].ret = 0 \/ vm.ran[k].einfo

\* C20: vmexec_ExecuteProgram runs the global initializer, when there is
\* one, before main and on the same thread; main is not run after a failed
\* initializer and the result is then nonzero; a failure or an uncaught
\* exception of main gives a nonzero result; the result is 0 only when
\* every function run completed without failure or exception; and the
\* thread is freed whenever the function returns.
C20_ExecuteProgram ==
    vm.pc # "off"
    => /\ \A k \in 1..Len(vm.ran) :
            (IsMainRun(k) /\ vm.prog.globalinit_func_index >= 0)
            => /\ k = 2
               /\ vm.ran[1].func = vm.prog.globalinit_func_index
               /\ vm.ran[1].thread = vm.ran[2].thread
               /\ ~RunFailed(1)
       /\ \A k \in 1..Len(vm.ran) :
            ~IsMainRun(k)
            => k = 1 /\ vm.ran[k].func = vm.prog.globalinit_func_index
       /\ vm.pc = "returned"
          => /\ (\E k \in 1..Len(vm.ran) : RunFailed(k)) => vm.result # 0
             /\ vm.result = 0
                => /\ \E k \in 1..Len(vm.ran) : IsMainRun(k)
                   /\ \A k \in 1..Len(vm.ran) : ~RunFailed(k)
             /\ vm.thread \in {"none", "freed"}
             /\ vm.thread = "none" => vm.threads = 0
       /\ vm.threads <= 1

\* the initializer and then main have run on the one thread, both
\* completed, the result is 0 and the thread is freed
C20_Witness ==
    /\ vm.pc = "returned"
    /\ vm.result = 0
    /\ Len(vm.ran) = 2
    /\ vm.ran[1].func = vm.prog.globalinit_func_index
    /\ IsMainRun(2)
    /\ vm.ran[1].thread = vm.ran[2].thread
    /\ vm.thread = "freed"

---------------------------------------------------------------------------
(* The value stack (stack.c).  stack.h is not among the sources: the three *)
(* tunables ALLOC_OVERSHOOT, ALLOC_MAXOVERSHOOT and ALLOC_EMERGENCY_MARGIN *)
(* are positive numbers fixed when the stack is created, the ceiling not   *)
(* below the overshoot.  The storage is the sequence of its alloc_count    *)
(* slots; a slot at or above entry_count holds no determinate value.       *)

\* largest size asked of stack_ToSize
MaxSize == 3
\* largest ALLOC_OVERSHOOT and ALLOC_MAXOVERSHOOT
MaxOvershoot == 2
\* largest ALLOC_EMERGENCY_MARGIN
MaxMargin == 3

Tunables ==
    {[overshoot |-> o, maxovershoot |-> x, margin |-> m] :
        o \in 1..MaxOvershoot, x \in 1..MaxOvershoot, m \in 1..MaxMargin}

\* the content of a slot that was allocated and never set, or freed
Uninit == "uninit"
\* a slot after memset(&st->entry[k], 0, ...)
ZeroSlot == "zero"
\* the values the interpreter stores into slots
SlotValues == {"a"}

\* a realloc that hands back storage without the old content
Realloc_Fresh(entry, new_alloc) == [k \in 1..new_alloc |-> Uninit]

\* lines 53-55, 104-107: realloc(st->entry, sizeof(*new_entries) * new_alloc)
\* when it succeeds: the content is kept up to the smaller of the two sizes
Realloc(entry, new_alloc) ==
    [k \in 1..new_alloc |-> IF k <= Len(entry) THEN entry[k] ELSE Uninit]

\* stack_New, lines 18-25
stack_New == [entry |-> <<>>, entry_count |-> 0, alloc_count |-> 0]

\* lines 45-50: the entries from total_entries on are freed
Shrink_Dropped(st, total_entries) ==
    IF st.entry_count > total_entries
    THEN [st EXCEPT
            !.entry = [k \in 1..Len(st.entry) |->
                        IF k > total_entries THEN Uninit ELSE st.entry[k]],
            !.entry_count = total_entries]
    ELSE st

\* line 51: if (st->alloc_count + ALLOC_MAXOVERSHOOT > st->entry_count)
ShrinkReallocates(st, t) == st.alloc_count + t.maxovershoot > st.entry_count

\* lines 51-61, on the stack after the entries were dropped.
\* fail: the realloc of line 53 returns NULL
Shrink_Realloc(st, t, fail) ==
    IF ShrinkReallocates(st, t) /\ ~fail
    THEN [st EXCEPT !.entry = Realloc(st.entry, st.entry_count + t.overshoot),
                    !.alloc_count = st.entry_count + t.overshoot]
    ELSE st

\* stack_Shrink, lines 44-62
stack_Shrink(st, t, total_entries, fail) ==
    Shrink_Realloc(Shrink_Dropped(st, total_entries), t, fail)

\* lines 98-101
alloc_needed_margin(t, can_use_emergency_margin) ==
    IF can_use_emergency_margin = 1 THEN 0 ELSE t.margin

\* line 103
GrowNeeded(st, t, total_entries, flag) ==
    st.alloc_count < total_entries + alloc_needed_margin(t, flag)

\* lines 113-116
ToSize_Grown(st, t, total_entries, flag) ==
    [st EXCEPT
        !.entry = Realloc(st.entry, total_entries
                            + alloc_needed_margin(t, flag) + t.overshoot),
        !.alloc_count = total_entries
                            + alloc_needed_margin(t, flag) + t.overshoot]

\* lines 125-130: the new slots are zeroed
ToSize_Filled(st, total_entries) ==
    [st EXCEPT
        !.entry = [k \in 1..Len(st.entry) |->
                    IF k > st.entry_count /\ k <= total_entries
                    THEN ZeroSlot ELSE st.entry[k]],
        !.entry_count = total_entries]

\* what a call of stack_ToSize gives: the stack, the return value and
\* whether the assertion of line 124 stopped the process
ToSizeResult(st, ret, aborted) == [st |-> st, ret |-> ret, aborted |-> aborted]

\* lines 119-131, on the stack after the growing step.
\* asserts: the build keeps assertions
ToSize_Sized(st, t, total_entries, failshrink, asserts) ==
    IF total_entries < st.entry_count
    THEN ToSizeResult(stack_Shrink(st, t, total_entries, failshrink), 1, FALSE)
    ELSE IF asserts /\ ~(st.alloc_count > total_entries)
    THEN ToSizeResult(st, 0, TRUE)
    ELSE ToSizeResult(ToSize_Filled(st, total_entries), 1, FALSE)

\* stack_ToSize, lines 92-132.  failgrow, failshrink: the realloc of
\* line 104, of line 53, returns NULL
stack_ToSize(st, t, total_entries, flag, failgrow, failshrink, asserts) ==
    IF GrowNeeded(st, t, total_entries, flag)
    THEN IF failgrow
         THEN IF flag # 1 \/ total_entries > st.alloc_count
              THEN ToSizeResult(st, 0, FALSE)
              ELSE ToSize_Sized(st, t, total_entries, failshrink, asserts)
         ELSE ToSize_Sized(ToSize_Grown(st, t, total_entries, flag), t,
                           total_entries, failshrink, asserts)
    ELSE ToSize_Sized(st, t, total_entries, failshrink, asserts)

\* no call of stack_ToSize has been made yet
NoStackCall ==
    [op |-> "none", n |-> 0, flag |-> 0, ret |-> 1,
     entry_count |-> 0, grow |-> "none",
     shrink |-> "none", shrink_alloc |-> 0, only0 |-> FALSE]

\* the sizes of the successful calls so far: the smallest and the largest,
\* and whether they rose and then fell ("up", "down") or not ("mixed")
NoSizes == [calls |-> 0, min |-> 0, max |-> 0, phase |-> "up"]

\* last: the size the previous successful call left, st->entry_count
SizesAfter(sizes, last, n) ==
    IF sizes.calls = 0
    THEN [calls |-> 1, min |-> n, max |-> n, phase |-> "up"]
    ELSE [calls |-> 1,
          min |-> IF n < sizes.min THEN n ELSE sizes.min,
          max |-> IF n > sizes.max THEN n ELSE sizes.max,
          phase |-> IF n = last THEN sizes.phase
                    ELSE IF n < last
                    THEN (IF sizes.phase = "mixed" THEN "mixed" ELSE "down")
                    ELSE (IF sizes.phase = "up" THEN "up" ELSE "mixed")]

StackStart(t, asserts) ==
    [pc |-> "stack", t |-> t, asserts |-> asserts, st |-> stack_New,
     written |-> [k \in 1..0 |-> ZeroSlot],
     sizes |-> NoSizes, only0 |-> FALSE, call |-> NoStackCall]

InitStack ==
    /\ program = h64program_New
    /\ call = NoCall
    /\ registered = {}
    /\ failures = 0
    /\ rs = NoResolve
    /\ ir = NoIdentifiers
    /\ \E t \in Tunables, asserts \in BOOLEAN :
        /\ t.maxovershoot >= t.overshoot
        /\ vm = StackStart(t, asserts)

\* what the realloc of line 104 did in a call
GrowOutcome(st, t, n, flag, failgrow) ==
    IF ~GrowNeeded(st, t, n, flag) THEN "none"
    ELSE IF failgrow THEN "failed" ELSE "done"

\* the stack a call hands to the step of lines 119-131
AfterGrow(st, t, n, flag, failgrow) ==
    IF GrowNeeded(st, t, n, flag) /\ ~failgrow
    THEN ToSize_Grown(st, t, n, flag) ELSE st

\* what the realloc of line 53 did in a call that reached stack_Shrink
ShrinkOutcome(grown, t, r, n, failshrink) ==
    IF r.ret = 0 \/ r.aborted \/ ~(n < grown.entry_count) THEN "none"
    ELSE IF ~ShrinkReallocates(Shrink_Dropped(grown, n), t) THEN "skipped"
    ELSE IF failshrink THEN "failed" ELSE "done"

\* the values last stored into the slots, by the interpreter or by the
\* zeroing of a new slot
WrittenAfter(written, before, r, n) ==
    IF r.ret = 0 \/ r.aborted THEN written
    ELSE [k \in 1..n |->
            IF k <= before.entry_count THEN written[k] ELSE ZeroSlot]

\* only0: a call has succeeded and no call that changed the stack had
\* can_use_emergency_margin set
OnlyNormalCalls(v, flag, r) ==
    IF r.ret = 0 THEN v.only0
    ELSE flag = 0 /\ (v.only0 \/ v.sizes.calls = 0)

\* the state after a call stack_ToSize(st, n, flag) that gave r
ToSize_Returns(v, op, n, flag, failgrow, failshrink, r) ==
    [v EXCEPT
        !.pc = IF r.aborted THEN "aborted" ELSE v.pc,
        !.st = r.st,
        !.written = WrittenAfter(v.written, v.st, r, n),
        !.sizes = IF r.ret = 1 THEN SizesAfter(v.sizes, v.st.entry_count, n)
                   ELSE v.sizes,
        !.only0 = OnlyNormalCalls(v, flag, r),
        !.call = [op |-> op, n |-> n, flag |-> flag, ret |-> r.ret,
                  entry_count |-> v.st.entry_count,
                  grow |-> GrowOutcome(v.st, v.t, n, flag, failgrow),
                  shrink |-> ShrinkOutcome(
                                AfterGrow(v.st, v.t, n, flag, failgrow),
                                v.t, r, n, failshrink),
                  shrink_alloc |->
                    AfterGrow(v.st, v.t, n, flag, failgrow).alloc_count,
                  only0 |-> v.only0]]

\* the outcomes of the realloc of line 104 (failed or not) in a call: it
\* fails only when it is called
GrowFailures(st, t, n, flag) ==
    IF GrowNeeded(st, t, n, flag) THEN BOOLEAN ELSE {FALSE}

\* the outcomes of the realloc of line 53 in a call
ShrinkFailures(st, n) == IF n < st.entry_count THEN BOOLEAN ELSE {FALSE}

\* a call of stack_ToSize
ToSize ==
    /\ vm.pc = "stack"
    /\ \E n \in 0..MaxSize, flag \in {0, 1} :
       \E failgrow \in GrowFailures(vm.st, vm.t, n, flag),
          failshrink \in ShrinkFailures(vm.st, n) :
        vm' = ToSize_Returns(vm, "ToSize", n, flag, failgrow, failshrink,
                stack_ToSize(vm.st, vm.t, n, flag, failgrow, failshrink,
                             vm.asserts))
    /\ UNCHANGED <<program, call, registered, failures, rs, ir>>

\* the interpreter stores a value into a slot of the stack
WriteSlot ==
    /\ vm.pc = "stack"
    /\ \E k \in 1..vm.st.entry_count, value \in SlotValues :
        vm' = [vm EXCEPT !.st.entry[k] = value, !.written[k] = value,
                         !.call = [NoStackCall EXCEPT !.op = "write"]]
    /\ UNCHANGED <<program, call, registered, failures, rs, ir>>

\* vmthread_WipeFuncStack, vmexec.c 41-56: the stack is cut back to the
\* floor of the current function; the result is asserted (line 53)
WipeFuncStack_Returns(v, r) ==
    IF r.ret = 0 /\ v.asserts THEN [v EXCEPT !.pc = "aborted"] ELSE v

vmthread_WipeFuncStack ==
    /\ vm.pc = "stack"
    /\ \E floor \in 0..(vm.st.entry_count - 1) :
       \E failgrow \in GrowFailures(vm.st, vm.t, floor, 0),
          failshrink \in ShrinkFailures(vm.st, floor) :
        vm' = WipeFuncStack_Returns(
                ToSize_Returns(vm, "wipe", floor, 0, failgrow, failshrink,
                    stack_ToSize(vm.st, vm.t, floor, 0, failgrow,
                                 failshrink, vm.asserts)),
                stack_ToSize(vm.st, vm.t, floor, 0, failgrow, failshrink,
                             vm.asserts))
    /\ UNCHANGED <<program, call, registered, failures, rs, ir>>

NextStack ==
    \/ ToSize
    \/ WriteSlot
    \/ vmthread_WipeFuncStack

SpecStack == InitStack /\ [][NextStack]_vars

\* the sizes of the successful calls rose and then fell
RoseThenFell == vm.sizes.calls > 0 /\ vm.sizes.phase \in {"up", "down"}

\* C21: over successful stack_ToSize calls whose sizes first rise and then
\* fall, every slot below the smallest size holds the value last written
\* to it, and once the stack has shrunk alloc_count is at most the largest
\* size + ALLOC_OVERSHOOT + ALLOC_EMERGENCY_MARGIN + 1.
C21_ShrinkPreservesData ==
    (vm.pc \in {"stack", "aborted"} /\ RoseThenFell)
    => /\ \A k \in 1..vm.sizes.min : vm.st.entry[k] = vm.written[k]
       /\ vm.sizes.phase = "down"
          => vm.st.alloc_count
                <= vm.sizes.max + vm.t.overshoot + vm.t.margin + 1

\* the stack grew to its largest size, a value was stored into a slot, the
\* stack shrank below the largest size with its storage reallocated, and
\* the slot is still there
C21_Witness ==
    /\ vm.pc = "stack"
    /\ vm.sizes.calls > 0
    /\ vm.sizes.phase = "down"
    /\ vm.sizes.min >= 1
    /\ vm.sizes.max = MaxSize
    /\ vm.st.entry_count = vm.sizes.min
    /\ vm.call.shrink = "done"
    /\ vm.st.entry[1] \in SlotValues

\* the last operation was a stack_ToSize call asked to shrink the stack
ShrinkingCall ==
    /\ vm.pc \in {"stack", "aborted"}
    /\ vm.call.op \in {"ToSize", "wipe"}
    /\ vm.call.n < vm.call.entry_count

\* C22: a stack_ToSize call with total_entries below entry_count returns 1
\* for both values of can_use_emergency_margin, whatever allocation fails,
\* and leaves entry_count = total_entries.
C22_ShrinkingNeverFails ==
    ShrinkingCall => (vm.call.ret = 1 /\ vm.st.entry_count = vm.call.n)

\* the last call reached stack_Shrink
ShrinkRan ==
    /\ vm.pc \in {"stack", "aborted"}
    /\ vm.call.op \in {"ToSize", "wipe"}
    /\ vm.call.shrink # "none"

\* C28: stack_Shrink reallocates the storage only when the slack left
\* after dropping the entries, alloc_count - entry_count, exceeds
\* ALLOC_MAXOVERSHOOT; otherwise alloc_count and the storage stay as they
\* were.
C28_ShrinkOnlyAboveCeiling ==
    ShrinkRan
    => /\ vm.call.shrink = "done"
          => vm.call.shrink_alloc - vm.st.entry_count > vm.t.maxovershoot
       /\ vm.call.shrink_alloc - vm.st.entry_count <= vm.t.maxovershoot
          => vm.st.alloc_count = vm.call.shrink_alloc

\* the last operation was stack_ToSize(entry_count + k, 1) with
\* 0 < k <= ALLOC_EMERGENCY_MARGIN, after successful calls without the
\* emergency margin only
EmergencyCall ==
    /\ vm.pc \in {"stack", "aborted"}
    /\ vm.call.op = "ToSize"
    /\ vm.call.flag = 1
    /\ vm.call.only0
    /\ vm.call.n - vm.call.entry_count \in 1..vm.t.margin

\* the emergency call succeeded with no allocation succeeding
EmergencyGranted ==
    /\ vm.pc = "stack"
    /\ vm.call.ret = 1
    /\ vm.call.grow = "none"
    /\ vm.st.entry_count = vm.call.n

\* the reserve as the claim states it
EmergencyReserve ==
    /\ (vm.pc \in {"stack", "aborted"} /\ vm.only0)
       => vm.st.alloc_count >= vm.st.entry_count + vm.t.margin
    /\ EmergencyCall => EmergencyGranted

\* C29, as stated: after successful stack_ToSize(., 0) calls, growing or
\* shrinking, alloc_count >= entry_count + ALLOC_EMERGENCY_MARGIN, and a
\* following stack_ToSize(entry_count + k, 1), 0 < k <= the margin,
\* returns 1 without any allocation succeeding.
C29_EmergencyReserve == EmergencyReserve

---------------------------------------------------------------------------
(* UTF-8 (unicode.c).  Bytes are numbers in 0..255, a string is the        *)
(* sequence of its bytes.                                                  *)

\* longest string of code points converted
MaxChars == 2
\* longest byte string handed to is_valid_utf8_char
MaxBytes == 4

RECURSIVE BitAnd(_, _)
\* a & b on non-negative numbers
BitAnd(a, b) ==
    IF a = 0 \/ b = 0 THEN 0
    ELSE (a % 2) * (b % 2) + 2 * BitAnd(a \div 2, b \div 2)

RECURSIVE BitOr(_, _)
\* a | b on non-negative numbers
BitOr(a, b) ==
    IF a = 0 THEN b
    ELSE IF b = 0 THEN a
    ELSE (IF a % 2 = 1 \/ b % 2 = 1 THEN 1 ELSE 0)
            + 2 * BitOr(a \div 2, b \div 2)

\* the conversion of an int to the char stored into out[]
ToByte(v) == v % 256

\* is_utf8_start, lines 16-26
is_utf8_start(c) ==
    \/ BitAnd(c, 224) = 192
    \/ BitAnd(c, 240) = 224
    \/ BitAnd(c, 248) = 240

\* utf8_char_len, lines 28-36
utf8_char_len(p) ==
    IF BitAnd(p[1], 224) = 192 THEN 2
    ELSE IF BitAnd(p[1], 240) = 224 THEN 3
    ELSE IF BitAnd(p[1], 248) = 240 THEN 4
    ELSE 1

\* lines 53, 64, 77: out[0] = (int)(byte1val | 0xC0)
LeadByte(byte1val, len) == BitOr(byte1val, 192)

\* write_codepoint_as_utf8, lines 38-88: ret and the bytes written
write_codepoint_as_utf8(codepoint, outbuflen) ==
    IF codepoint < 128
    THEN IF outbuflen < 1 THEN [ret |-> 0, out |-> <<>>]
         ELSE [ret |-> 1, out |-> <<ToByte(codepoint)>>]
    ELSE IF codepoint < 2048
    THEN IF outbuflen < 2 THEN [ret |-> 0, out |-> <<>>]
         ELSE [ret |-> 1,
               out |-> <<ToByte(LeadByte(BitAnd(codepoint, 1984) \div 64, 2)),
                         ToByte(BitOr(BitAnd(codepoint, 63), 128))>>]
    ELSE IF codepoint < 65536
    THEN IF outbuflen < 3 THEN [ret |-> 0, out |-> <<>>]
         ELSE [ret |-> 1,
               out |-> <<ToByte(LeadByte(BitAnd(codepoint, 61440) \div 4096,
                                         3)),
                         ToByte(BitOr(BitAnd(codepoint, 4032) \div 64, 128)),
                         ToByte(BitOr(BitAnd(codepoint, 63), 128))>>]
    ELSE IF codepoint < 2097152
    THEN IF outbuflen < 4 THEN [ret |-> 0, out |-> <<>>]
         ELSE [ret |-> 1,
               out |-> <<ToByte(LeadByte(
                            BitAnd(codepoint, 1835008) \div 262144, 4)),
                         ToByte(BitOr(BitAnd(codepoint, 258048) \div 4096,
                                      128)),
                         ToByte(BitOr(BitAnd(codepoint, 4032) \div 64, 128)),
                         ToByte(BitOr(BitAnd(codepoint, 63), 128))>>]
    ELSE [ret |-> 0, out |-> <<>>]

\* p[k] is a continuation byte 10xxxxxx
IsContinuation(p, k) == BitAnd(p[k], 192) = 128

Rejected == [ret |-> 0, out |-> 0, outlen |-> 0]
Decoded(c, len) == [ret |-> 1, out |-> c, outlen |-> len]

\* line 170: (unicodechar)(*p) & (unicodechar)0x1FULL
LeadMask4 == 31

\* lines 104-123
get_utf8_codepoint_2(p, size) ==
    IF ~IsContinuation(p, 2) THEN Rejected
    ELSE IF size >= 3 /\ IsContinuation(p, 3) THEN Rejected
    ELSE IF BitAnd(p[1], 31) * 64 + BitAnd(p[2], 63) <= 127 THEN Rejected
    ELSE Decoded(BitAnd(p[1], 31) * 64 + BitAnd(p[2], 63), 2)

\* lines 135-153, c the code point put together
get_utf8_codepoint_3_Checked(c) ==
    IF c <= 2047 THEN Rejected
    ELSE IF c >= 55296 /\ c <= 57343 THEN Rejected
    ELSE Decoded(c, 3)

\* lines 124-154
get_utf8_codepoint_3(p, size) ==
    IF ~IsContinuation(p, 2) THEN Rejected
    ELSE IF ~IsContinuation(p, 3) THEN Rejected
    ELSE IF size >= 4 /\ IsContinuation(p, 4) THEN Rejected
    ELSE get_utf8_codepoint_3_Checked(
            BitAnd(p[1], 31) * 4096 + BitAnd(p[2], 63) * 64
                + BitAnd(p[3], 63))

\* lines 155-186
get_utf8_codepoint_4(p, size) ==
    IF ~IsContinuation(p, 2) THEN Rejected
    ELSE IF ~IsContinuation(p, 3) THEN Rejected
    ELSE IF ~IsContinuation(p, 4) THEN Rejected
    ELSE IF size >= 5 /\ IsContinuation(p, 5) THEN Rejected
    ELSE IF BitAnd(p[1], LeadMask4) * 262144 + BitAnd(p[2], 63) * 4096
                + BitAnd(p[3], 63) * 64 + BitAnd(p[4], 63) <= 65535
    THEN Rejected
    ELSE Decoded(BitAnd(p[1], LeadMask4) * 262144 + BitAnd(p[2], 63) * 4096
                    + BitAnd(p[3], 63) * 64 + BitAnd(p[4], 63), 4)

\* get_utf8_codepoint, lines 90-188; p holds at least size bytes
get_utf8_codepoint(p, size) ==
    IF size < 1 THEN Rejected
    ELSE IF ~is_utf8_start(p[1])
    THEN (IF p[1] > 127 THEN Rejected ELSE Decoded(p[1], 1))
    ELSE IF BitAnd(p[1], 224) = 192 /\ size >= 2
    THEN get_utf8_codepoint_2(p, size)
    ELSE IF BitAnd(p[1], 240) = 224 /\ size >= 3
    THEN get_utf8_codepoint_3(p, size)
    ELSE IF BitAnd(p[1], 248) = 240 /\ size >= 4
    THEN get_utf8_codepoint_4(p, size)
    ELSE Rejected

\* is_valid_utf8_char, lines 190-196
is_valid_utf8_char(p, size) ==
    IF get_utf8_codepoint(p, size).ret = 0 THEN 0 ELSE 1

\* the bytes of input from position i (0-based) on
FromByte(input, i) == SubSeq(input, i + 1, Len(input))

RECURSIVE utf8_to_utf32_loop(_, _, _, _)
\* lines 237-266: the code points stored into temp_buf, or "invalid"
utf8_to_utf32_loop(input, i, buf, surrogatereplaceinvalid) ==
    IF ~(i < Len(input)) THEN buf
    ELSE IF get_utf8_codepoint(FromByte(input, i), Len(input) - i).ret = 0
    THEN IF ~surrogatereplaceinvalid THEN "invalid"
         ELSE utf8_to_utf32_loop(input, i + 1,
                Append(buf, 56448 + input[i + 1]), surrogatereplaceinvalid)
    ELSE utf8_to_utf32_loop(input,
            i + get_utf8_codepoint(FromByte(input, i), Len(input) - i).outlen,
            Append(buf,
                get_utf8_codepoint(FromByte(input, i), Len(input) - i).out),
            surrogatereplaceinvalid)

\* line 267: temp_buf[k * sizeof(unicodechar)] = '\0' lies beyond the
\* input_len * sizeof(unicodechar) bytes of temp_buf when k = input_len
TempBufOverrun(input, buf) == Len(buf) = Len(input)

\* utf8_to_utf32, lines 198-209 and 211-292: what the call can give.
\* An overrun of temp_buf is undefined: the call ends in a fault or goes on.
utf8_to_utf32(input) ==
    {[ret |-> "oom", out |-> <<>>],
     [ret |-> "ok", out |-> utf8_to_utf32_loop(input, 0, <<>>, TRUE)]}
    \cup (IF TempBufOverrun(input,
                utf8_to_utf32_loop(input, 0, <<>>, TRUE))
          THEN {[ret |-> "fault", out |-> <<>>]} ELSE {})

RECURSIVE utf32_to_utf8_loop(_, _, _, _)
\* lines 299-318: ret and the bytes written
utf32_to_utf8_loop(input, i, out, outbuflen) ==
    IF ~(i < Len(input)) THEN [ret |-> 1, out |-> out]
    ELSE IF write_codepoint_as_utf8(input[i + 1], outbuflen).ret = 0
    THEN [ret |-> 0, out |-> out]
    ELSE utf32_to_utf8_loop(input, i + 1,
            out \o write_codepoint_as_utf8(input[i + 1], outbuflen).out,
            outbuflen
              - Len(write_codepoint_as_utf8(input[i + 1], outbuflen).out))

\* utf32_to_utf8, lines 294-319
utf32_to_utf8(input, outbuflen) == utf32_to_utf8_loop(input, 0, <<>>, outbuflen)

\* UTF-8 as the Unicode standard defines it: the bytes of a code point
Utf8Of(c) ==
    IF c < 128 THEN <<c>>
    ELSE IF c < 2048 THEN <<192 + (c \div 64), 128 + (c % 64)>>
    ELSE IF c < 65536
    THEN <<224 + (c \div 4096), 128 + ((c \div 64) % 64), 128 + (c % 64)>>
    ELSE <<240 + (c \div 262144), 128 + ((c \div 4096) % 64),
           128 + ((c \div 64) % 64), 128 + (c % 64)>>

RECURSIVE Utf8OfAll(_)
Utf8OfAll(cs) ==
    IF cs = <<>> THEN <<>> ELSE Utf8Of(Head(cs)) \o Utf8OfAll(Tail(cs))

\* code points of each encoded length, at the ends of the ranges, none of
\* them a surrogate
ScalarValues ==
    {0, 65, 127, 128, 246, 2047, 2048, 8364, 55295, 57344, 65535,
     65536, 128512, 1114111}

UnicodeStart(cs) ==
    [pc |-> "utf8", codepoints |-> cs, input |-> Utf8OfAll(cs),
     utf32 |-> <<>>, out |-> <<>>, ret |-> 1]

InitUnicode ==
    /\ program = h64program_New
    /\ call = NoCall
    /\ registered = {}
    /\ failures = 0
    /\ rs = NoResolve
    /\ ir = NoIdentifiers
    /\ \E n \in 0..MaxChars : \E cs \in [1..n -> ScalarValues] :
        vm = UnicodeStart(cs)

\* the state after utf8_to_utf32 gave r
Utf8ToUtf32_Returns(v, r) ==
    IF r.ret = "ok" THEN [v EXCEPT !.pc = "utf32", !.utf32 = r.out]
    ELSE [v EXCEPT !.pc = r.ret]

Utf8ToUtf32 ==
    /\ vm.pc = "utf8"
    /\ \E r \in utf8_to_utf32(vm.input) : vm' = Utf8ToUtf32_Returns(vm, r)
    /\ UNCHANGED <<program, call, registered, failures, rs, ir>>

\* utf32_to_utf8 into a buffer that has room for four bytes per code point
Utf32ToUtf8 ==
    /\ vm.pc = "utf32"
    /\ vm' = [vm EXCEPT
                !.pc = "utf8again",
                !.ret = utf32_to_utf8(vm.utf32, 4 * Len(vm.utf32) + 1).ret,
                !.out = utf32_to_utf8(vm.utf32, 4 * Len(vm.utf32) + 1).out]
    /\ UNCHANGED <<program, call, registered, failures, rs, ir>>

NextUnicode ==
    \/ Utf8ToUtf32
    \/ Utf32ToUtf8

SpecUnicode == InitUnicode /\ [][NextUnicode]_vars

\* C23: for a well-formed UTF-8 string of code points in 0..0x10FFFF
\* without surrogates, utf8_to_utf32 gives the code points the bytes
\* encode, and utf32_to_utf8 of them gives back the original bytes.
C23_Utf8RoundTrip ==
    /\ vm.pc = "utf32" => vm.utf32 = vm.codepoints
    /\ vm.pc = "utf8again"
       => /\ vm.utf32 = vm.codepoints
          /\ vm.ret = 1
          /\ vm.out = vm.input

\* bytes of every kind: ASCII, continuation bytes, lead bytes of two,
\* three and four byte sequences
ByteSamples == {65, 128, 160, 182, 192, 195, 224, 237, 240, 244}

Utf8CharStart(p, size) ==
    [pc |-> "char", p |-> p, size |-> size, ret |-> 0, len |-> 0]

InitUtf8Char ==
    /\ program = h64program_New
    /\ call = NoCall
    /\ registered = {}
    /\ failures = 0
    /\ rs = NoResolve
    /\ ir = NoIdentifiers
    /\ \E n \in 1..MaxBytes : \E p \in [1..n -> ByteSamples] :
       \E size \in 0..n :
        vm = Utf8CharStart(p, size)

IsValidUtf8Char ==
    /\ vm.pc = "char"
    /\ vm' = [vm EXCEPT !.pc = "checked",
                        !.ret = is_valid_utf8_char(vm.p, vm.size)]
    /\ UNCHANGED <<program, call, registered, failures, rs, ir>>

Utf8CharLen ==
    /\ vm.pc = "char"
    /\ vm' = [vm EXCEPT !.pc = "measured", !.len = utf8_char_len(vm.p)]
    /\ UNCHANGED <<program, call, registered, failures, rs, ir>>

NextUtf8Char ==
    \/ IsValidUtf8Char
    \/ Utf8CharLen

SpecUtf8Char == InitUtf8Char /\ [][NextUtf8Char]_vars

\* the length the lead byte announces: 110xxxxx, 1110xxxx, 11110xxx
AnnouncedLen(b) ==
    IF b \in 192..223 THEN 2
    ELSE IF b \in 224..239 THEN 3
    ELSE IF b \in 240..247 THEN 4
    ELSE 1

\* the bytes 2..n are continuation bytes 10xxxxxx
Continued(p, n) == \A k \in 2..n : p[k] \in 128..191

\* the number a sequence of n bytes encodes, n >= 2
RECURSIVE Payload(_, _, _)
Payload(p, k, n) ==
    IF k > n THEN 0
    ELSE (p[k] - 128) * (IF n - k = 0 THEN 1 ELSE IF n - k = 1 THEN 64
                          ELSE 4096)
            + Payload(p, k + 1, n)

EncodedValue(p, n) ==
    (IF n = 2 THEN (p[1] - 192) * 64
     ELSE IF n = 3 THEN (p[1] - 224) * 4096
     ELSE (p[1] - 240) * 262144) + Payload(p, 2, n)

\* the sequence at p starts with a multi-byte lead byte
MultiByte(p) == AnnouncedLen(p[1]) > 1

Truncated(p, size) == MultiByte(p) /\ AnnouncedLen(p[1]) > size

BadContinuation(p, size) ==
    /\ MultiByte(p)
    /\ AnnouncedLen(p[1]) <= size
    /\ ~Continued(p, AnnouncedLen(p[1]))

Complete(p, size) ==
    /\ MultiByte(p)
    /\ AnnouncedLen(p[1]) <= size
    /\ Continued(p, AnnouncedLen(p[1]))

Overlong(p, size) ==
    /\ Complete(p, size)
    /\ EncodedValue(p, AnnouncedLen(p[1]))
            < (IF AnnouncedLen(p[1]) = 2 THEN 128
               ELSE IF AnnouncedLen(p[1]) = 3 THEN 2048 ELSE 65536)

Surrogate(p, size) ==
    /\ Complete(p, size)
    /\ EncodedValue(p, AnnouncedLen(p[1])) \in 55296..57343

\* a well-formed sequence that fills the size bytes or is followed by a
\* byte that starts another sequence
WellFormed(p, size) ==
    \/ /\ size >= 1
       /\ p[1] < 128
    \/ /\ Complete(p, size)
       /\ ~Overlong(p, size)
       /\ ~Surrogate(p, size)
       /\ EncodedValue(p, AnnouncedLen(p[1])) <= 1114111
       /\ size > AnnouncedLen(p[1])
          => p[AnnouncedLen(p[1]) + 1] \notin 128..191

\* C26: is_valid_utf8_char returns 0 for a sequence with a required
\* continuation byte that is not 10xxxxxx, for one cut off by size, for an
\* overlong encoding of two, three or four bytes and for an encoded
\* surrogate, and 1 for a well-formed sequence; utf8_char_len returns 2, 3
\* or 4 for the lead bytes 110xxxxx, 1110xxxx, 11110xxx and 1 otherwise.
C26_ValidUtf8Char ==
    /\ vm.pc = "checked"
       => /\ BadContinuation(vm.p, vm.size) => vm.ret = 0
          /\ Truncated(vm.p, vm.size) => vm.ret = 0
          /\ Overlong(vm.p, vm.size) => vm.ret = 0
          /\ Surrogate(vm.p, vm.size) => vm.ret = 0
          /\ WellFormed(vm.p, vm.size) => vm.ret = 1
    /\ vm.pc = "measured" => vm.len = AnnouncedLen(vm.p[1])

---------------------------------------------------------------------------
(* filesys_Normalize on relative paths (filesys.c 147-306) *)

\* largest number of components of a path handed to filesys_Normalize
MaxComponents == 5

\* the characters of a TLA+ string of letters, dots and slashes
Chars(s) ==
    [k \in 1..Len(s) |->
        IF SubSeq(s, k, k) = "/" THEN "/"
        ELSE IF SubSeq(s, k, k) = "." THEN "."
        ELSE SubSeq(s, k, k)]

\* the components paths are put together from; the empty one gives a
\* repeated or a trailing separator
PathComponents ==
    {<<"a">>, <<"b">>, <<>>, <<".", ".">>, <<".">>, <<".", ".", "a">>}

RECURSIVE JoinComponents(_)
\* the components with a separator between each two
JoinComponents(comps) ==
    IF comps = <<>> THEN <<>>
    ELSE IF Len(comps) = 1 THEN comps[1]
    ELSE comps[1] \o <<"/">> \o JoinComponents(Tail(comps))

\* the paths of the tests at lines 1327-1343
TestPaths ==
    {Chars("u//abc/def/..u/../.."), Chars("u//../abc/def/..u/../.."),
     Chars("../abc/def/..u/../..")}

\* relative paths of up to max components
RelativePaths(max) ==
    TestPaths \cup
    UNION {{JoinComponents(comps) : comps \in
                {c \in [1..n -> PathComponents] : c[1] # <<>>}} :
            n \in 1..max}

\* the byte after the last one a memmove(dst, src, len) touches: it reads
\* up to src + len, which lies beyond dst + len in every call here
\* lines 226-228
CollapseMoveEnd(result, i, movelen) ==
    (i + movelen) + (Len(result) - (i + movelen) + 1)

\* lines 243-244
DotSlashMoveEnd(result, i) == (i + 2) + (Len(result) - (i - 2) + 1)

\* lines 258-259
DoubleSlashMoveEnd(result, i) == (i + 1) + (Len(result) - (i - 1) + 1)

RECURSIVE NormalizeOverruns(_, _, _, _)
\* the loop of lines 200-264 again, for one question: does a memmove
\* leave the alloc bytes of the working copy
NormalizeOverruns(result, i, lcs, alloc) ==
    IF i >= Len(result) THEN FALSE
    ELSE IF /\ Ch(result, i) = "/"
            /\ Ch(result, i + 1) = "."
            /\ Ch(result, i + 2) = "."
            /\ Ch(result, i + 3) \in {"/", NUL}
            /\ i > lcs
            /\ i > 0
            /\ \/ Ch(result, lcs + 1) # "."
               \/ Ch(result, lcs + 2) # "."
               \/ Ch(result, lcs + 3) # "/"
    THEN \/ CollapseMoveEnd(result, i, IF Ch(result, i + 3) = NUL
                                       THEN 3 ELSE 4) > alloc
         \/ NormalizeOverruns(
                SubSeq(result, 1, lcs + 1)
                    \o From(result, i + (IF Ch(result, i + 3) = NUL
                                         THEN 3 ELSE 4)),
                0, 0, alloc)
    ELSE IF /\ Ch(result, i) = "/"
            /\ Ch(result, i + 1) = "."
            /\ Ch(result, i + 2) = "/"
    THEN \/ DotSlashMoveEnd(result, i) > alloc
         \/ NormalizeOverruns(
                SubSeq(result, 1, i) \o From(result, i + 2), i, i, alloc)
    ELSE IF Ch(result, i) = "/"
    THEN \/ Ch(result, i + 1) = "/" /\ DoubleSlashMoveEnd(result, i) > alloc
         \/ NormalizeOverruns(
                SubSeq(result, 1, i + 1)
                    \o DropLeadingSeps(From(result, i + 1)),
                i + 1, i, alloc)
    ELSE NormalizeOverruns(result, i + 1, lcs, alloc)

\* what a call filesys_Normalize(path) can give: NULL when strdup fails,
\* the normalized path, and a fault when a memmove runs over the end of
\* the allocation, the strlen(path) + 1 bytes of the strdup of line 150
NormalizeOutcomes(path) ==
    {[ret |-> "null", result |-> <<>>],
     [ret |-> "ok", result |-> filesys_Normalize(path)]}
    \cup (IF NormalizeOverruns(filesys_RemoveDoubleSlashes(path), 0, -1,
                               Len(path) + 1)
          THEN {[ret |-> "fault", result |-> <<>>]} ELSE {})

NormalizeStart(path) ==
    [pc |-> "path", path |-> path, ret |-> "none", result |-> <<>>]

InitNormalize ==
    /\ program = h64program_New
    /\ call = NoCall
    /\ registered = {}
    /\ failures = 0
    /\ rs = NoResolve
    /\ ir = NoIdentifiers
    /\ \E path \in RelativePaths(MaxComponents) : vm = NormalizeStart(path)

Normalize ==
    /\ vm.pc = "path"
    /\ \E r \in NormalizeOutcomes(vm.path) :
        vm' = [vm EXCEPT !.pc = "normalized", !.ret = r.ret,
                         !.result = r.result]
    /\ UNCHANGED <<program, call, registered, failures, rs, ir>>

\* filesys_RemoveDoubleSlashes alone; strdup may fail
RemoveDoubleSlashes ==
    /\ vm.pc = "path"
    /\ \E oom \in BOOLEAN :
        vm' = [vm EXCEPT
                !.pc = "slashes",
                !.ret = IF oom THEN "null" ELSE "ok",
                !.result = IF oom THEN <<>>
                           ELSE filesys_RemoveDoubleSlashes(vm.path)]
    /\ UNCHANGED <<program, call, registered, failures, rs, ir>>

NextNormalize ==
    \/ Normalize
    \/ RemoveDoubleSlashes

SpecNormalize == InitNormalize /\ [][NextNormalize]_vars

RECURSIVE SplitPath(_, _)
\* the components of a path, cur the component being read
SplitPath(path, cur) ==
    IF path = <<>> THEN <<cur>>
    ELSE IF Head(path) = "/" THEN <<cur>> \o SplitPath(Tail(path), <<>>)
    ELSE SplitPath(Tail(path), Append(cur, Head(path)))

\* the components that are not empty
NamedComponents(path) == SelectSeq(SplitPath(path, <<>>), LAMBDA c : c # <<>>)

RECURSIVE CancelDotDot(_, _)
\* each ".." cancels the nearest component before it that is not ".."
CancelDotDot(comps, kept) ==
    IF comps = <<>> THEN kept
    ELSE IF /\ Head(comps) = <<".", ".">>
            /\ kept # <<>>
            /\ kept[Len(kept)] # <<".", ".">>
    THEN CancelDotDot(Tail(comps), SubSeq(kept, 1, Len(kept) - 1))
    ELSE CancelDotDot(Tail(comps), Append(kept, Head(comps)))

\* the component-wise normalizer
ReferenceNormalize(path) ==
    JoinComponents(CancelDotDot(NamedComponents(path), <<>>))

\* no component is a single dot
NoDotComponent(path) ==
    \A k \in 1..Len(SplitPath(path, <<>>)) :
        SplitPath(path, <<>>)[k] # <<".">>

\* C24: for a relative path of letters, '.' and '/', filesys_Normalize
\* gives what the component-wise normalizer gives: repeated and trailing
\* separators removed, each ".." cancelling the nearest component before
\* it that is not "..", leading ".." kept; the three paths of the tests
\* give "u/abc", "abc" and "../abc".
C24_NormalizeMatchesReference ==
    (vm.pc = "normalized" /\ vm.ret = "ok" /\ NoDotComponent(vm.path))
    => /\ vm.result = ReferenceNormalize(vm.path)
       /\ vm.path = Chars("u//abc/def/..u/../..")
            => vm.result = Chars("u/abc")
       /\ vm.path = Chars("u//../abc/def/..u/../..")
            => vm.result = Chars("abc")
       /\ vm.path = Chars("../abc/def/..u/../..")
            => vm.result = Chars("../abc")

---------------------------------------------------------------------------
(* filesys_TurnIntoPathRelativeTo on absolute paths (filesys.c 1148-1322) *)

\* largest number of components of an absolute path handed to
\* filesys_TurnIntoPathRelativeTo
MaxAbsComponents == 3

filesys_GetComponentCount(path) ==
    Cardinality({i \in 1..(Len(path) - 1) :
                    Ch(path, i) # "/" /\ Ch(path, i - 1) = "/"})

filesys_IsAbsolutePath(path) ==
    IF Len(path) > 0 /\ Ch(path, 0) = "." THEN FALSE
    ELSE Len(path) > 0 /\ Ch(path, 0) = "/"

RECURSIVE SimilarPathBase(_, _, _, _, _)
\* the loop of lines 1214-1231: the last index at which the two paths
\* agree and the last separator up to there
SimilarPathBase(reltopath, input_path, i, similar_up_to, last_component) ==
    IF i < Len(reltopath) /\ i < Len(input_path)
            /\ Ch(reltopath, i) = Ch(input_path, i)
    THEN SimilarPathBase(reltopath, input_path, i + 1, i,
            IF Ch(reltopath, i) = "/" THEN i ELSE last_component)
    ELSE [similar_up_to |-> similar_up_to,
          last_component |-> last_component]

\* lines 1232-1248: a path that ends where the other one has a separator
\* ends a component there
LastComponent(reltopath, input_path, base) ==
    IF /\ base.similar_up_to + 1 >= Len(reltopath)
       /\ base.similar_up_to + 1 < Len(input_path)
       /\ Ch(input_path, base.similar_up_to + 1) = "/"
    THEN base.similar_up_to + 1
    ELSE IF /\ base.similar_up_to + 1 >= Len(input_path)
            /\ base.similar_up_to + 1 < Len(reltopath)
            /\ Ch(reltopath, base.similar_up_to + 1) = "/"
    THEN base.similar_up_to + 1
    ELSE base.last_component

\* the common start not cut back to the end of a component
SimilarUpTo_Unclamped(reltopath, input_path) ==
    SimilarPathBase(reltopath, input_path, 0, -1, -1).similar_up_to

\* lines 1249-1250
SimilarUpTo(reltopath, input_path) ==
    LET base == SimilarPathBase(reltopath, input_path, 0, -1, -1)
        last_component == LastComponent(reltopath, input_path, base)
    IN  IF base.similar_up_to > last_component THEN last_component
        ELSE base.similar_up_to

\* lines 1252-1268
SameStart(input_path, similar_up_to) ==
    filesys_Normalize(SubSeq(input_path, 1, similar_up_to + 1))

\* lines 1270-1290
DifferingEnd(input_path, similar_up_to) ==
    DropLeadingSeps(IF similar_up_to > 0
                    THEN From(input_path, similar_up_to + 1)
                    ELSE input_path)

RECURSIVE PrependDotDot(_, _, _)
\* the loop of lines 1300-1319
PrependDotDot(differingend, i, reltopath_components) ==
    IF i < reltopath_components
    THEN PrependDotDot(<<".", ".", "/">> \o differingend, i + 1,
                       reltopath_components)
    ELSE differingend

\* from the two normalized paths on (lines 1210-1321)
RelativeOfNormalized(input_path, reltopath) ==
    PrependDotDot(
        DifferingEnd(input_path, SimilarUpTo(reltopath, input_path)),
        filesys_GetComponentCount(
            SameStart(input_path, SimilarUpTo(reltopath, input_path))),
        filesys_GetComponentCount(reltopath))

\* the result when no allocation fails; both paths are absolute, so the
\* current directory is fetched and not used
filesys_TurnIntoPathRelativeTo(path, makerelativetopath) ==
    RelativeOfNormalized(filesys_Normalize(path),
                         filesys_Normalize(makerelativetopath))

\* what a path means: its named components with every ".." cancelled
Meaning(path) == CancelDotDot(NamedComponents(path), <<>>)

\* the components absolute paths are put together from
AbsComponents == {<<"a">>, <<"b">>, <<"a", "b">>, <<>>, <<".", ".">>}

\* absolute paths of up to n components in which no ".." leads above
\* the root
AbsolutePaths(n) ==
    {<<"/">> \o JoinComponents(comps) : comps \in
        UNION {{c \in [1..k -> AbsComponents] :
                    \A x \in 1..Len(Meaning(JoinComponents(c))) :
                        Meaning(JoinComponents(c))[x] # <<".", ".">>} :
               k \in 0..n}}

\* the calls of the tests at lines 1344-1389, the second one with the
\* names of its directories and its file cut down to their first letter
TestCalls ==
    {[path |-> Chars("/abc/def/lul"),
      relto |-> Chars("/abc//def/flobb/")],
     [path |-> Chars("/h/e/D//g/l/../t/o/s"),
      relto |-> Chars("/h/../h/e/D/g")]}

RelativeStart(path, relto) ==
    [pc |-> "paths", path |-> path, relto |-> relto, ret |-> "none",
     result |-> <<>>]

InitRelative ==
    /\ program = h64program_New
    /\ call = NoCall
    /\ registered = {}
    /\ failures = 0
    /\ rs = NoResolve
    /\ ir = NoIdentifiers
    /\ \/ \E c \in TestCalls : vm = RelativeStart(c.path, c.relto)
       \/ \E path \in AbsolutePaths(MaxAbsComponents),
             relto \in AbsolutePaths(MaxAbsComponents) :
            vm = RelativeStart(path, relto)

\* the call; NULL when the current directory cannot be fetched or an
\* allocation fails
TurnIntoPathRelativeTo ==
    /\ vm.pc = "paths"
    /\ \E fail \in BOOLEAN :
        vm' = [vm EXCEPT
                !.pc = "relative",
                !.ret = IF fail THEN "null" ELSE "ok",
                !.result = IF fail THEN <<>>
                           ELSE filesys_TurnIntoPathRelativeTo(
                                    vm.path, vm.relto)]
    /\ UNCHANGED <<program, call, registered, failures, rs, ir>>

\* filesys_GetComponentCount of the path alone
GetComponentCount ==
    /\ vm.pc = "paths"
    /\ vm' = [vm EXCEPT !.pc = "counted", !.ret = "ok",
                        !.result = filesys_GetComponentCount(vm.path)]
    /\ UNCHANGED <<program, call, registered, failures, rs, ir>>

NextRelative ==
    \/ TurnIntoPathRelativeTo
    \/ GetComponentCount

SpecRelative == InitRelative /\ [][NextRelative]_vars

IsProperPrefix(b, p) == Len(b) < Len(p) /\ SubSeq(p, 1, Len(b)) = b

\* the number of leading components two component lists share
CommonComponents(b, p) ==
    CHOOSE n \in 0..Len(b) :
        /\ n <= Len(p)
        /\ SubSeq(b, 1, n) = SubSeq(p, 1, n)
        /\ (n < Len(b) /\ n < Len(p)) => b[n + 1] # p[n + 1]

RECURSIVE DotDots(_)
DotDots(n) == IF n = 0 THEN <<>> ELSE <<".", ".", "/">> \o DotDots(n - 1)

\* the relative path the claim describes, p and b the meanings of P and B
ExpectedRelative(p, b) ==
    IF IsProperPrefix(b, p)
    THEN JoinComponents(SubSeq(p, Len(b) + 1, Len(p)))
    ELSE DotDots(Len(b) - CommonComponents(b, p))
            \o JoinComponents(SubSeq(p, CommonComponents(b, p) + 1, Len(p)))

RelativeReturned == vm.pc = "relative" /\ vm.ret = "ok"

---------------------------------------------------------------------------
(* Identifiers of the builtin module (scoperesolver.c 41-86, 549-580) *)

\* largest number of items of one kind registered before the lookup
MaxBuiltinItems == 2

MsgUnknownIdentifier ==
    "unexpected unknown identifier, variable or module not found"

\* the three lookups in the name maps of the builtin module, in their
\* order; the reference is the number stored under the name
identifierisbuiltin(p, identifier) ==
    LET msymbols ==
            p.modules[h64debugsymbols_GetBuiltinModule(p) + 1]
    IN  IF hash_MapHas(msymbols.func_name_to_entry, identifier)
        THEN [ret |-> 1,
              ref |-> SetStorage("GLOBALFUNCSLOT",
                        msymbols.func_name_to_entry[identifier])]
        ELSE IF hash_MapHas(msymbols.class_name_to_entry, identifier)
        THEN [ret |-> 1,
              ref |-> SetStorage("GLOBALCLASSSLOT",
                        msymbols.class_name_to_entry[identifier])]
        ELSE IF hash_MapHas(msymbols.globalvar_name_to_entry, identifier)
        THEN [ret |-> 1,
              ref |-> SetStorage("GLOBALVARSLOT",
                        msymbols.globalvar_name_to_entry[identifier])]
        ELSE [ret |-> 0, ref |-> NoStorage]

\* lines 549-580: the identifier expression e was found in no scope
UnknownOrBuiltin(e, p, oom) ==
    LET found == identifierisbuiltin(p, e.value)
    IN  IF found.ret = 1
        THEN [e EXCEPT !.resolved_to_builtin = 1, !.storage = found.ref,
                       !.ret = 1]
        ELSE IF oom
        THEN [e EXCEPT !.resultmsg.success = FALSE,
                       !.hadoutofmemory = 1, !.ret = 0]
        ELSE [e EXCEPT !.resultmsg =
                        result_AddMessage(
                            [@ EXCEPT !.success = FALSE], "ERROR",
                            MsgUnknownIdentifier, NoUri, 1, FALSE).r,
                       !.ret = 1]

BuiltinNames == {"f", "g"}
BuiltinModules == {NULL, "m"}

BuiltinStart ==
    [pc |-> "register", items |-> {}, value |-> NULL,
     resolved_to_builtin |-> 0, storage |-> NoStorage,
     resultmsg |-> NewResult, hadoutofmemory |-> 0, ret |-> 1]

InitBuiltin ==
    /\ program = h64program_New
    /\ call = NoCall
    /\ registered = {}
    /\ failures = 0
    /\ rs = NoResolve
    /\ ir = NoIdentifiers
    /\ vm = BuiltinStart

\* the items of a kind registered so far
ItemsOf(kind) == {it \in vm.items : it.kind = kind}

\* a registration of a name new to its kind and module has returned r
Builtin_Registered(kind, name, module_path, r) ==
    /\ Cardinality(ItemsOf(kind)) < MaxBuiltinItems
    /\ \A it \in ItemsOf(kind) :
            ~(it.name = name /\ it.module_path = module_path)
    /\ r.ret >= 0
    /\ program' = r.p
    /\ vm' = [vm EXCEPT !.items = @ \cup
                {[kind |-> kind, name |-> name,
                  module_path |-> module_path, id |-> r.ret]}]
    /\ UNCHANGED <<call, registered, failures, rs, ir>>

Builtin_RegisterCFunction ==
    /\ vm.pc = "register"
    /\ \E name \in BuiltinNames, module_path \in BuiltinModules :
        Builtin_Registered("func", name, module_path,
            h64program_RegisterCFunction(
                program, name, 1, NoUri, 0, module_path, -1, "none"))

Builtin_AddClass ==
    /\ vm.pc = "register"
    /\ \E name \in BuiltinNames, module_path \in BuiltinModules :
        Builtin_Registered("class", name, module_path,
            h64program_AddClass(program, name, NoUri, module_path,
                                "none"))

Builtin_AddGlobalvar ==
    /\ vm.pc = "register"
    /\ \E name \in BuiltinNames, module_path \in BuiltinModules :
        Builtin_Registered("globalvar", name, module_path,
            h64program_AddGlobalvar(program, name, 0, NoUri, module_path,
                                    "none"))

\* the visit of an identifier that no scope holds
Builtin_VisitIdentifier ==
    /\ vm.pc = "register"
    /\ \E value \in BuiltinNames, oom \in BOOLEAN :
        vm' = UnknownOrBuiltin(
                [vm EXCEPT !.pc = "visited", !.value = value],
                program, oom)
    /\ UNCHANGED <<program, call, registered, failures, rs, ir>>

NextBuiltin ==
    \/ Builtin_RegisterCFunction
    \/ Builtin_AddClass
    \/ Builtin_AddGlobalvar
    \/ Builtin_VisitIdentifier

SpecBuiltin == InitBuiltin /\ [][NextBuiltin]_vars

\* the builtin items of a kind with the name of the visited identifier
BuiltinItems(kind) ==
    {it \in ItemsOf(kind) : it.name = vm.value /\ it.module_path = NULL}

\* the kind the lookup order gives the visited identifier, "none" when
\* the builtin module does not have the name
BuiltinKind ==
    IF BuiltinItems("func") # {} THEN "func"
    ELSE IF BuiltinItems("class") # {} THEN "class"
    ELSE IF BuiltinItems("globalvar") # {} THEN "globalvar"
    ELSE "none"

StorageTypeOf(kind) ==
    IF kind = "func" THEN "GLOBALFUNCSLOT"
    ELSE IF kind = "class" THEN "GLOBALCLASSSLOT"
    ELSE "GLOBALVARSLOT"

\* C27: an identifier found in no scope that the builtin module has as a
\* function, class or global variable (looked up in this order) is marked
\* resolved_to_builtin and gets a set storage reference of the matching
\* type whose id is the program-wide id of the item, in whatever order
\* builtin and other items were registered; an identifier the builtin
\* module does not have gets the "unknown identifier" error, success =
\* false and no storage.
C27_BuiltinStorage ==
    (vm.pc = "visited" /\ vm.ret = 1)
    => IF BuiltinKind = "none"
       THEN /\ vm.resolved_to_builtin = 0
            /\ vm.storage.set = 0
            /\ vm.resultmsg.success = FALSE
            /\ \E k \in 1..Len(vm.resultmsg.messages) :
                /\ vm.resultmsg.messages[k].type = "ERROR"
                /\ vm.resultmsg.messages[k].message = MsgUnknownIdentifier
       ELSE /\ vm.resolved_to_builtin = 1
            /\ vm.storage.set = 1
            /\ vm.storage.type = StorageTypeOf(BuiltinKind)
            /\ \A it \in BuiltinItems(BuiltinKind) :
                    vm.storage.id = it.id

---------------------------------------------------------------------------
(* The dispatch table of vmthread_RunFunction (vmexec.c 80-84, 207-229) *)

\* the tags that get an entry at lines 208-228, in the order of the
\* assignments
JumptableTags ==
    <<"INVALID", "SETCONST", "SETGLOBAL", "GETGLOBAL", "GETFUNC",
      "GETCLASS", "VALUECOPY", "BINOP", "UNOP", "CALL", "SETTOP",
      "RETURNVALUE", "JUMPTARGET", "CONDJUMP", "JUMP", "NEWITERATOR",
      "ITERATE", "PUSHCATCHFRAME", "ADDCATCHTYPEBYREF", "ADDCATCHTYPE",
      "POPCATCHFRAME">>

\* the tags of the switch of h64program_PtrToInstructionSize
SizedTags ==
    {"SETCONST", "SETGLOBAL", "GETGLOBAL", "GETFUNC", "GETCLASS",
     "VALUECOPY", "BINOP", "UNOP", "CALL", "SETTOP", "RETURNVALUE",
     "JUMPTARGET", "CONDJUMP", "JUMP", "NEWITERATOR", "ITERATE",
     "PUSHCATCHFRAME", "ADDCATCHTYPEBYREF", "ADDCATCHTYPE",
     "POPCATCHFRAME", "GETMEMBER", "JUMPTOFINALLY", "NEWLIST",
     "ADDTOLIST", "NEWSET", "ADDTOSET", "NEWVECTOR", "PUTVECTOR",
     "NEWMAP", "PUTMAP"}

\* the tags of the enumeration
InstructionTags == {"INVALID"} \cup SizedTags

\* the label inst_<tag>
Handler(tag) == [kind |-> "label", tag |-> tag]

\* an entry that was never assigned, and a jump that hits no label
Indeterminate == [kind |-> "indeterminate", tag |-> "none"]
WildJump == [kind |-> "fault", tag |-> "none"]
NoTarget == [kind |-> "none", tag |-> "none"]

\* the local array of line 80 before any assignment
Jumptable_Declared == [tag \in InstructionTags |-> Indeterminate]

RECURSIVE Jumptable_Assigned(_, _)
\* the assignments of lines 208-228 from the k-th on
Jumptable_Assigned(jumptable, k) ==
    IF k > Len(JumptableTags) THEN jumptable
    ELSE Jumptable_Assigned(
            [jumptable EXCEPT ![JumptableTags[k]] =
                Handler(JumptableTags[k])],
            k + 1)

\* a tag without a case falls to the default of the switch: with
\* assertions the program stops there, without them 0 is returned
h64program_PtrToInstructionSize(type, asserts) ==
    IF type \in SizedTags THEN [ret |-> "sizeof", of |-> type]
    ELSE IF asserts THEN [ret |-> "abort", of |-> type]
    ELSE [ret |-> "0", of |-> type]

\* where goto *jumptable[type] can go: to the label stored in the entry,
\* or anywhere when the entry was never assigned
GotoTargets(jumptable, type) ==
    IF jumptable[type] # Indeterminate THEN {jumptable[type]}
    ELSE {Handler(tag) : tag \in InstructionTags} \cup {WildJump}

DispatchStart(type, asserts) ==
    [pc |-> "entry", type |-> type, asserts |-> asserts,
     jumptable |-> Jumptable_Declared, target |-> NoTarget,
     size |-> [ret |-> "none", of |-> type]]

InitDispatch ==
    /\ program = h64program_New
    /\ call = NoCall
    /\ registered = {}
    /\ failures = 0
    /\ rs = NoResolve
    /\ ir = NoIdentifiers
    /\ \E type \in InstructionTags, asserts \in BOOLEAN :
        vm = DispatchStart(type, asserts)

\* the size of the first instruction of the function, as the code that
\* builds and prints functions asks for it
PtrToInstructionSize ==
    /\ vm.pc = "entry"
    /\ vm.size.ret = "none"
    /\ vm' = [vm EXCEPT !.size =
                h64program_PtrToInstructionSize(vm.type, vm.asserts)]
    /\ UNCHANGED <<program, call, registered, failures, rs, ir>>

\* line 84 and lines 207-228
SetupInterpreter ==
    /\ vm.pc = "entry"
    /\ vm.size.ret # "abort"
    /\ vm' = [vm EXCEPT !.pc = "dispatch",
                        !.jumptable = Jumptable_Assigned(@, 1)]
    /\ UNCHANGED <<program, call, registered, failures, rs, ir>>

\* line 229
Dispatch ==
    /\ vm.pc = "dispatch"
    /\ \E target \in GotoTargets(vm.jumptable, vm.type) :
        vm' = [vm EXCEPT !.pc = "handler", !.target = target]
    /\ UNCHANGED <<program, call, registered, failures, rs, ir>>

NextDispatch ==
    \/ PtrToInstructionSize
    \/ SetupInterpreter
    \/ Dispatch

SpecDispatch == InitDispatch /\ [][NextDispatch]_vars

\* C30: once the interpreter is set up, the dispatch table has an
\* assigned entry for every instruction tag of the enumeration, so the
\* dispatch on any tag that h64program_PtrToInstructionSize has a size
\* for goes to the handler of that tag.
C30_DispatchTableComplete ==
    /\ vm.pc \in {"dispatch", "handler"}
        => \A tag \in InstructionTags : vm.jumptable[tag] = Handler(tag)
    /\ (vm.pc = "handler"
            /\ h64program_PtrToInstructionSize(vm.type, vm.asserts).ret
                    = "sizeof")
        => vm.target = Handler(vm.type)

---------------------------------------------------------------------------
(* External reference counts of heap values held by stack slots           *)
(* (vmexec.c 94-129, bytecode.c 371-376, stack.c 27-50)                    *)

\* number of heap values a literal can refer to
MaxHeapValues == 2
\* number of setconst instructions and stack calls of a run
MaxGcSteps == 3

\* a heap value of the pool of the thread with the external count c
HeapValue(c) ==
    [type |-> "STRING", heapreferencecount |-> 0,
     externalreferencecount |-> c, str_val |-> <<>>]

GcPtr(h) == [pool |-> "thread", index |-> h]

\* the literals of the setconst instructions: references and a number
GcLiterals == {GcValue(GcPtr(h)) : h \in 1..MaxHeapValues} \cup {IntValue(7)}

\* valuecontent_Free, lines 371-376: only the buffer of a
\* CONSTPREALLOCSTR is released; the pools are left as they are
valuecontent_Free(content, pools) == pools

\* stack_FreeEntry, lines 27-30, on slot k (from 1) of the stack of v
stack_FreeEntry(v, k) ==
    IF v.asserts /\ v.stack[k].type = "CONSTPREALLOCSTR" THEN Crashed(v)
    ELSE [v EXCEPT !.pools = valuecontent_Free(v.stack[k], v.pools)]

RECURSIVE FreeEntriesDown(_, _, _)
\* lines 45-49 and 35-39: the entries from i down to total_entries + 1
\* are freed
FreeEntriesDown(v, i, total_entries) ==
    IF i <= total_entries \/ v.pc = "crashed" THEN v
    ELSE FreeEntriesDown(stack_FreeEntry(v, i), i - 1, total_entries)

\* stack_ToSize as the slots see it: a smaller size frees the entries
\* on top, a larger one adds zeroed entries
Gc_ToSize(v, total_entries) ==
    IF total_entries < Len(v.stack)
    THEN [FreeEntriesDown(v, Len(v.stack), total_entries) EXCEPT
            !.stack = SubSeq(v.stack, 1, total_entries)]
    ELSE [v EXCEPT !.stack =
            [k \in 1..total_entries |->
                IF k <= Len(v.stack) THEN v.stack[k] ELSE NoneValue]]

\* stack_Free, lines 32-42
Gc_StackFree(v) ==
    [FreeEntriesDown(v, Len(v.stack), 0) EXCEPT
        !.stack = <<>>, !.hasstack = FALSE]

\* the external counts of the heap values of the thread
ExternalCounts(v) ==
    [h \in 1..Len(v.pools["thread"]) |->
        v.pools["thread"][h].externalreferencecount]

\* before: the external counts at the start; execs: how often a literal
\* referring to each heap value was executed; released: the last
\* reference a slot gave up, with the counts around it
GcStart(counts, slots, asserts) ==
    [pc |-> "dispatch", hasstack |-> TRUE, asserts |-> asserts,
     stack |-> [k \in 1..slots |-> NoneValue],
     thread_heap |-> "thread", heap |-> "thread",
     pools |-> [q \in Pools |->
                IF q = "thread"
                THEN [h \in 1..Len(counts) |-> HeapValue(counts[h])]
                ELSE <<>>],
     p |-> 1, ret |-> 1,
     before |-> counts,
     execs |-> [h \in 1..Len(counts) |-> 0],
     released |-> [h |-> 0, was |-> 0, is |-> 0],
     last |-> [done |-> FALSE, slot |-> 0, content |-> NoneValue]]

InitGcRef ==
    /\ program = h64program_New
    /\ call = NoCall
    /\ registered = {}
    /\ failures = 0
    /\ rs = NoResolve
    /\ ir = NoIdentifiers
    /\ \E counts \in [1..MaxHeapValues -> {0, 1}],
          slots \in 0..MaxSlots, asserts \in BOOLEAN :
            vm = GcStart(counts, slots, asserts)

\* the heap value slot k of the stack of v refers to, 0 for none
Referred(v, k) ==
    IF v.stack[k].type = "GCVAL" THEN v.stack[k].ptr_value.index ELSE 0

\* the record of the reference that slot k of v gives up, r the state
\* after it
Released(v, k, r) ==
    IF Referred(v, k) = 0 THEN [h |-> 0, was |-> 0, is |-> 0]
    ELSE [h |-> Referred(v, k),
          was |-> ExternalCounts(v)[Referred(v, k)],
          is |-> ExternalCounts(r)[Referred(v, k)]]

\* a setconst instruction on a slot of the stack
GcRef_Setconst ==
    /\ vm.pc = "dispatch"
    /\ vm.p <= MaxGcSteps
    /\ \E slot \in 0..(Len(vm.stack) - 1), content \in GcLiterals :
        LET r == inst_setconst(vm, SetConst(slot, content), "none")
        IN  vm' = [r EXCEPT
                    !.execs = IF content.type = "GCVAL"
                              THEN [@ EXCEPT ![content.ptr_value.index]
                                                = @ + 1]
                              ELSE @,
                    !.released =
                        IF content = vm.stack[slot + 1]
                        THEN [h |-> 0, was |-> 0, is |-> 0]
                        ELSE Released(vm, slot + 1, r),
                    !.last = [done |-> TRUE, slot |-> slot,
                              content |-> content]]
    /\ UNCHANGED <<program, call, registered, failures, rs, ir>>

\* stack_ToSize between two instructions
GcRef_ToSize ==
    /\ vm.pc = "dispatch"
    /\ vm.p <= MaxGcSteps
    /\ \E total_entries \in 0..MaxSlots :
        /\ total_entries # Len(vm.stack)
        /\ LET r == Gc_ToSize(vm, total_entries)
           IN  vm' = [r EXCEPT
                        !.p = @ + 1,
                        !.released =
                            IF total_entries < Len(vm.stack)
                            THEN Released(vm, Len(vm.stack), r)
                            ELSE [h |-> 0, was |-> 0, is |-> 0]]
    /\ UNCHANGED <<program, call, registered, failures, rs, ir>>

\* stack_Free when the thread is freed
GcRef_StackFree ==
    /\ vm.pc = "dispatch"
    /\ LET r == Gc_StackFree(vm)
       IN  vm' = [r EXCEPT
                    !.pc = "freed",
                    !.released =
                        IF Len(vm.stack) > 0
                        THEN Released(vm, Len(vm.stack), r)
                        ELSE [h |-> 0, was |-> 0, is |-> 0]]
    /\ UNCHANGED <<program, call, registered, failures, rs, ir>>

NextGcRef ==
    \/ GcRef_Setconst
    \/ GcRef_ToSize
    \/ GcRef_StackFree

SpecGcRef == InitGcRef /\ [][NextGcRef]_vars

\* the live slots that refer to heap value h
LiveRefs(h) == {k \in 1..Len(vm.stack) : Referred(vm, k) = h}

\* C31: each execution of a setconst with a GCVAL literal raises the
\* external reference count of the value by one: when every execution of
\* the literal has gone to a slot of its own that is still live, k slots
\* in all, the count is k higher than before the first execution.
C31_SetconstCountsReference ==
    vm.pc = "dispatch"
    => \A h \in 1..MaxHeapValues :
        (vm.execs[h] = Cardinality(LiveRefs(h)))
        => ExternalCounts(vm)[h] = vm.before[h] + vm.execs[h]

\* C32: a slot of type GCVAL that is overwritten by setconst or dropped
\* by stack_Shrink or stack_Free gives up its reference, the external
\* count of the value goes down by exactly one; so, for values nothing
\* referred to at the start, the external count is the number of live
\* slots that refer to the value.
C32_FreeReleasesReference ==
    /\ vm.released.h # 0 => vm.released.is = vm.released.was - 1
    /\ \A h \in 1..MaxHeapValues :
        vm.before[h] = 0
        => ExternalCounts(vm)[h] = Cardinality(LiveRefs(h))

---------------------------------------------------------------------------
(* utf8_to_utf32_ex on arbitrary bytes (unicode.c 211-292) *)

\* sizeof(unicodechar)
SizeofUnicodechar == 4

\* what the call hands back: the return value ("ok" with the code points,
\* "null", or "fault" when an access beyond temp_buf stops the process),
\* the two flags, and the ends of the parts of temp_buf written and read
Utf8ExResult(ret, out, invalid, oom, input, k) ==
    [ret |-> ret, out |-> out,
     was_aborted_invalid |-> invalid, was_aborted_outofmemory |-> oom,
     temp_buf_len |-> Len(input) * SizeofUnicodechar,
     written_end |-> IF k < 0 THEN 0 ELSE k * SizeofUnicodechar + 1,
     read_end |-> IF k < 0 \/ ret # "ok" THEN 0
                  ELSE (k + 1) * SizeofUnicodechar]

\* lines 267-291, buf the code points the loop has stored: the
\* terminator byte is written at k * sizeof(unicodechar), then
\* (k + 1) * sizeof(unicodechar) bytes are copied to the result
Utf8Ex_Finish(input, buf) ==
    {Utf8ExResult("null", <<>>, 0, 1, input, Len(buf)),
     Utf8ExResult("ok", buf, 0, 0, input, Len(buf))}
    \cup (IF TempBufOverrun(input, buf)
          THEN {Utf8ExResult("fault", <<>>, -1, -1, input, Len(buf))}
          ELSE {})

\* utf8_to_utf32_ex, lines 211-292, for inputs below the 2048 bytes from
\* which temp_buf comes from malloc
utf8_to_utf32_ex(input, surrogatereplaceinvalid) ==
    IF utf8_to_utf32_loop(input, 0, <<>>, surrogatereplaceinvalid = 1)
            = "invalid"
    THEN {Utf8ExResult("null", <<>>, 1, 0, input, -1)}
    ELSE Utf8Ex_Finish(input,
            utf8_to_utf32_loop(input, 0, <<>>, surrogatereplaceinvalid = 1))

Utf8ExStart(input, surrogatereplaceinvalid) ==
    [pc |-> "bytes", input |-> input,
     surrogatereplaceinvalid |-> surrogatereplaceinvalid,
     r |-> Utf8ExResult("none", <<>>, -1, -1, input, -1)]

InitUtf8Ex ==
    /\ program = h64program_New
    /\ call = NoCall
    /\ registered = {}
    /\ failures = 0
    /\ rs = NoResolve
    /\ ir = NoIdentifiers
    /\ \E n \in 0..MaxBytes : \E input \in [1..n -> ByteSamples] :
       \E surrogatereplaceinvalid \in {0, 1} :
        vm = Utf8ExStart(input, surrogatereplaceinvalid)

Utf8ToUtf32Ex ==
    /\ vm.pc = "bytes"
    /\ \E r \in utf8_to_utf32_ex(vm.input, vm.surrogatereplaceinvalid) :
        vm' = [vm EXCEPT !.pc = "decoded", !.r = r]
    /\ UNCHANGED <<program, call, registered, failures, rs, ir>>

\* is_valid_utf8_char on the bytes from the start of the input
Utf8Ex_IsValidChar ==
    /\ vm.pc = "bytes"
    /\ vm.input # <<>>
    /\ vm' = [vm EXCEPT
                !.pc = "checked",
                !.r.ret = IF is_valid_utf8_char(vm.input, Len(vm.input))
                                = 1
                          THEN "valid" ELSE "invalid"]
    /\ UNCHANGED <<program, call, registered, failures, rs, ir>>

NextUtf8Ex ==
    \/ Utf8ToUtf32Ex
    \/ Utf8Ex_IsValidChar

SpecUtf8Ex == InitUtf8Ex /\ [][NextUtf8Ex]_vars

\* a well-formed sequence of the Unicode standard starts the size bytes p
StartsWellFormed(p, size) ==
    \/ /\ size >= 1
       /\ p[1] < 128
    \/ /\ Complete(p, size)
       /\ ~Overlong(p, size)
       /\ ~Surrogate(p, size)
       /\ EncodedValue(p, AnnouncedLen(p[1])) <= 1114111

RECURSIVE ReplacingDecode(_, _)
\* the code points of the input from position i on: each well-formed
\* sequence gives its code point, each other byte 0xDC80 + byte
ReplacingDecode(input, i) ==
    IF i >= Len(input) THEN <<>>
    ELSE IF ~StartsWellFormed(FromByte(input, i), Len(input) - i)
    THEN <<56448 + input[i + 1]>> \o ReplacingDecode(input, i + 1)
    ELSE IF input[i + 1] < 128
    THEN <<input[i + 1]>> \o ReplacingDecode(input, i + 1)
    ELSE <<EncodedValue(FromByte(input, i), AnnouncedLen(input[i + 1]))>>
            \o ReplacingDecode(input, i + AnnouncedLen(input[i + 1]))

\* at some position of the input no well-formed sequence starts
HasIllFormed(input) ==
    \E k \in 1..Len(ReplacingDecode(input, 0)) :
        ReplacingDecode(input, 0)[k] \in 56448..56703

\* C33: with surrogatereplaceinvalid = 1 each position at which no
\* well-formed sequence starts gives the one code point 0xDC80 + byte and
\* takes that one byte, the well-formed sequences around it are decoded
\* as they are, and the call never ends as invalid; with
\* surrogatereplaceinvalid = 0 an input with such a position makes the
\* call return NULL with was_aborted_invalid = 1 and
\* was_aborted_outofmemory = 0.
C33_SurrogateReplace ==
    vm.pc = "decoded"
    => /\ vm.surrogatereplaceinvalid = 1
            => /\ vm.r.was_aborted_invalid # 1
               /\ vm.r.ret = "ok"
                    => vm.r.out = ReplacingDecode(vm.input, 0)
       /\ (vm.surrogatereplaceinvalid = 0 /\ HasIllFormed(vm.input))
            => /\ vm.r.ret = "null"
               /\ vm.r.was_aborted_invalid = 1
               /\ vm.r.was_aborted_outofmemory = 0

\* C39: every write into temp_buf, the terminator after the last code
\* point included, and every read copied out of it stays within the
\* temp_buf_len = input_len * sizeof(unicodechar) bytes, also when each
\* byte of the input gives one code point.
C39_TempBufInBounds ==
    vm.pc = "decoded"
    => /\ vm.r.written_end <= vm.r.temp_buf_len
       /\ vm.r.read_end <= vm.r.temp_buf_len

---------------------------------------------------------------------------
(* The fileuri_index of the symbols (bytecode.c 577-581, 667-672, 880-885) *)

\* no registration yet
FileuriIndexStart ==
    [pc |-> "register", op |-> "none", fileuri |-> NoUri, ret |-> 0,
     computed |-> -1, stored |-> -1]

InitFileuriIndex ==
    /\ program = h64program_New
    /\ call = NoCall
    /\ registered = {}
    /\ failures = 0
    /\ rs = NoResolve
    /\ ir = NoIdentifiers
    /\ vm = FileuriIndexStart

\* the symbol a registration in module_path has added last
LastSymbol(p, module_path, table) ==
    LET msymbols == p.modules[ModuleFor(p, module_path, FALSE).index + 1]
    IN  IF table = "func"
        THEN msymbols.func_symbols[Len(msymbols.func_symbols)]
        ELSE IF table = "class"
        THEN msymbols.classes_symbols[Len(msymbols.classes_symbols)]
        ELSE msymbols.globalvar_symbols[Len(msymbols.globalvar_symbols)]

\* the call op with the argument fileuri has returned r
FileuriIndex_Registered(op, table, fileuri, module_path, r) ==
    /\ r.ret >= 0
    /\ program' = r.p
    /\ vm' = [vm EXCEPT
                !.op = op, !.fileuri = fileuri, !.ret = r.ret,
                !.computed = FileuriStep(program, fileuri, "none").ret,
                !.stored = LastSymbol(r.p, module_path, table).fileuri_index]
    /\ UNCHANGED <<call, registered, failures, rs, ir>>

FileuriIndex_RegisterCFunction ==
    /\ func_count(program) < MaxFuncs
    /\ \E name \in {"f"}, fileuri \in UriArgs(program, FileUris),
          module_path \in {NULL, "m"} :
        FileuriIndex_Registered("RegisterCFunction", "func", fileuri,
            module_path,
            h64program_RegisterCFunction(
                program, name, 1, fileuri, 0, module_path, -1, "none"))

FileuriIndex_RegisterHorse64Function ==
    /\ func_count(program) < MaxFuncs
    /\ \E name \in {"f"}, fileuri \in UriArgs(program, FileUris),
          module_path \in {NULL, "m"} :
        FileuriIndex_Registered("RegisterHorse64Function", "func", fileuri,
            module_path,
            h64program_RegisterHorse64Function(
                program, name, fileuri, 0, module_path, -1, "none"))

FileuriIndex_AddClass ==
    /\ classes_count(program) < MaxClasses
    /\ \E name \in {"C"}, fileuri \in UriArgs(program, FileUris),
          module_path \in {NULL, "m"} :
        FileuriIndex_Registered("AddClass", "class", fileuri, module_path,
            h64program_AddClass(program, name, fileuri, module_path,
                                "none"))

FileuriIndex_AddGlobalvar ==
    /\ globalvar_count(program) < MaxGlobals
    /\ \E name \in {"v"}, fileuri \in UriArgs(program, FileUris),
          module_path \in {NULL, "m"} :
        FileuriIndex_Registered("AddGlobalvar", "globalvar", fileuri,
            module_path,
            h64program_AddGlobalvar(program, name, 0, fileuri, module_path,
                                    "none"))

NextFileuriIndex ==
    \/ FileuriIndex_RegisterCFunction
    \/ FileuriIndex_RegisterHorse64Function
    \/ FileuriIndex_AddClass
    \/ FileuriIndex_AddGlobalvar

SpecFileuriIndex == InitFileuriIndex /\ [][NextFileuriIndex]_vars

\* C34: after a successful h64program_RegisterCFunction,
\* h64program_RegisterHorse64Function, h64program_AddClass or
\* h64program_AddGlobalvar with a fileuri, the fileuri_index of the new
\* symbol is the index bytecode_fileuriindex computed for the URI; it is
\* -1 only when no fileuri was given.
C34_FileuriIndexStored ==
    vm.op # "none"
    => /\ vm.fileuri # NoUri => (vm.stored = vm.computed /\ vm.stored >= 0)
       /\ vm.fileuri = NoUri => vm.stored = -1
---------------------------------------------------------------------------
(* Import graphs: scoperesolver_BuildASTGlobalStorage                      *)
(* (src/horse64/compiler/scoperesolver.c, 955-1253) over files that import *)
(* each other, themselves included.  compileproject_GetAST hands out one   *)
(* AST per file (compileproject.c is not among the sources).               *)

\* import statements per file
MaxImports == 1

\* calls of scoperesolver_BuildASTGlobalStorage from outside
MaxGraphCalls == 2

GraphOrder == <<"entry", "imp", "imp2">>

\* the import lists of a file: at most max of the files, in file order
ImportLists(max) ==
    {SelectSeq(GraphOrder, LAMBDA f : f \in t) :
        t \in {u \in SUBSET Files : Cardinality(u) <= max}}

\* a file that imports targets and defines one global function
GraphDefs(targets) ==
    [k \in 1..Len(targets) |-> ImportDef(targets[k])] \o <<FuncDef("f", 1)>>

\* stack: the calls of scoperesolver_BuildASTGlobalStorage in progress,
\* outermost first; j: the definition the recursion loop of a call is at;
\* lastret: the call that returned last; func: the functions registered in
\* the program, each named by the file that defines it
GraphStart(imports) ==
    [pc |-> "idle", stack |-> <<>>, i |-> 0, ret |-> -1, calls |-> 0,
     project |-> NewResult, func |-> <<>>,
     lastret |-> [file |-> "none", ret |-> -1],
     ast |-> [f \in Files |->
                NewAst(<<f>>, <<f>> \o Ext, TRUE, GraphDefs(imports[f]))]]

InitGraph ==
    /\ program = h64program_New
    /\ call = NoCall
    /\ registered = {}
    /\ failures = 0
    /\ rs = NoResolve
    /\ ir = NoIdentifiers
    /\ \E imports \in [Files -> ImportLists(MaxImports)] :
        vm = GraphStart(imports)

\* the call in progress that was made last
TopCall(s) == s.stack[Len(s.stack)]

\* the innermost call returns r: to the caller outside, or to the recursion
\* loop of the call below (lines 1228-1238)
Graph_Returns(s, r, fail) ==
    LET done == [s EXCEPT !.lastret = [file |-> TopCall(s).file, ret |-> r]]
        t == result_TransferMessages(
                 s.ast[TopCall(s).file].resultmsg, s.project,
                 fail = "transfer")
    IN  IF Len(s.stack) = 1
        THEN [done EXCEPT !.pc = "returned", !.stack = <<>>, !.ret = r]
        ELSE IF r = 0 \/ t.ret = 0
        THEN [done EXCEPT !.pc = "returned", !.stack = <<>>, !.ret = 0]
        ELSE [done EXCEPT !.pc = "recurse", !.project = t.r,
                          !.stack = <<[s.stack[1] EXCEPT !.j = @ + 1]>>]

\* a test of the flag that never finds it set
AlreadyBuilt_Never(a) == FALSE

\* line 961
AlreadyBuilt(a) == a.global_storage_built = 1

\* lines 961-1094 for the AST a.  derived: the module path can be derived
\* from the file's place in its project (the derivation itself is
\* ModulePathDerivation).  ret as for BuildModulePath
Graph_ModulePath(a, fail, derived) ==
    IF AlreadyBuilt(a) THEN [ast |-> a, ret |-> 1]
    ELSE IF a.module_path # NULL
    THEN [ast |-> [a EXCEPT !.global_storage_built = 1], ret |-> 2]
    ELSE BuildModulePath_Derived(
             [a EXCEPT !.global_storage_built = 1], fail,
             [ok |-> derived, path |-> Str(a.fileuri)])

\* lines 961-1200 for the innermost call, with the result m of the module
\* path step and l of the import loop
Graph_Started(s, fail, m, l) ==
    IF m.ret = 2 /\ l.ret = 1
    THEN [s EXCEPT !.ast[TopCall(s).file] = l.ast, !.pc = "visit", !.i = 0]
    ELSE IF m.ret = 2
    THEN Graph_Returns([s EXCEPT !.ast[TopCall(s).file] = l.ast], 0, fail)
    ELSE Graph_Returns([s EXCEPT !.ast[TopCall(s).file] = m.ast], m.ret,
                       fail)

Graph_Build(s, fail, derived) ==
    LET m == Graph_ModulePath(s.ast[TopCall(s).file], fail, derived)
    IN  Graph_Started(s, fail, m, LoadImports(m.ast, fail))

\* _resolvercallback_BuildGlobalStorage_visit_out (lines 421-430) and
\* scoperesolver_ComputeItemStorage (lines 278-300) on definition i of the
\* AST a, for a function that is not main: the function is registered in
\* func, and its id stored.  oom: the registration fails
Graph_visit_out(a, i, func, oom) ==
    IF ~(/\ a.defs[i].type = "funcdef"
         /\ \/ a.defs[i].is_global = 1 /\ a.defs[i].storage_set = 0
            \/ a.defs[i].bytecode_func_id < 0)
    THEN [ast |-> a, func |-> func, ret |-> 1]
    ELSE IF oom THEN [ast |-> a, func |-> func, ret |-> 0]
    ELSE [ast |-> [a EXCEPT !.defs[i].storage_set = 1,
                            !.defs[i].storage_id = Len(func),
                            !.defs[i].bytecode_func_id = Len(func)],
          func |-> Append(func, a.fileuri), ret |-> 1]

\* lines 1203-1209 for definition s.i of the innermost call, with the
\* result v of the visitor
Graph_Visited(s, v) ==
    IF v.ret = 0
    THEN Graph_Returns([s EXCEPT !.ast[TopCall(s).file] = v.ast], 0, "none")
    ELSE [s EXCEPT !.ast[TopCall(s).file] = v.ast, !.func = v.func,
                   !.i = s.i + 1]

\* lines 1211-1242 for the import statements todo that are still to be
\* handled: the next referenced AST is built with recursive = 0
Graph_Recursion(s, fail, todo) ==
    IF TopCall(s).recursive = 1 /\ todo # {}
    THEN [s EXCEPT
            !.pc = "build",
            !.stack = <<[s.stack[1] EXCEPT !.j =
                            (CHOOSE x \in todo : \A y \in todo : x <= y)
                                - 1],
                        [file |-> s.ast[TopCall(s).file].defs[
                                    CHOOSE x \in todo :
                                        \A y \in todo : x <= y].
                                            referenced_ast,
                         recursive |-> 0, j |-> 0]>>]
    ELSE Graph_Returns(s, 1, fail)

\* the import statements the recursion loop of the innermost call has not
\* handled yet
Graph_Todo(s) ==
    ImportsFrom(s.ast[TopCall(s).file],
                IF s.pc = "visit" THEN 0 ELSE TopCall(s).j)

\* a failure is an allocation that changes the outcome, and is counted
Graph_Step(fail, next, plain) ==
    /\ fail # "none" => next # plain
    /\ Counted(fail # "none")
    /\ vm' = next

\* scoperesolver_BuildASTGlobalStorage is called from outside on a file
GraphCall ==
    /\ vm.pc \in {"idle", "returned"}
    /\ vm.calls < MaxGraphCalls
    /\ \E f \in Files, recursive \in {0, 1} :
        vm' = [vm EXCEPT !.pc = "build", !.calls = @ + 1,
                         !.stack = <<[file |-> f, recursive |-> recursive,
                                      j |-> 0]>>]
    /\ UNCHANGED <<program, call, registered, failures, rs, ir>>

\* lines 961-1200: the test of the flag, the module path and the imports
GraphBuild ==
    /\ vm.pc = "build"
    /\ \E fail \in BuildFail, derived \in BOOLEAN :
        Graph_Step(fail, Graph_Build(vm, fail, derived),
                   Graph_Build(vm, "none", derived))
    /\ UNCHANGED <<program, call, registered, rs, ir>>

\* lines 1203-1209: the visitor leaves the next definition
GraphVisit ==
    /\ vm.pc = "visit"
    /\ vm.i < Len(vm.ast[TopCall(vm).file].defs)
    /\ \E oom \in BOOLEAN :
        Graph_Step(
            IF oom THEN "func" ELSE "none",
            Graph_Visited(vm, Graph_visit_out(
                vm.ast[TopCall(vm).file], vm.i + 1, vm.func, oom)),
            Graph_Visited(vm, Graph_visit_out(
                vm.ast[TopCall(vm).file], vm.i + 1, vm.func, FALSE)))
    /\ UNCHANGED <<program, call, registered, rs, ir>>

\* lines 1211-1252: the recursion loop, and the return of 1
GraphRecurse ==
    /\ \/ vm.pc = "visit" /\ vm.i = Len(vm.ast[TopCall(vm).file].defs)
       \/ vm.pc = "recurse"
    /\ \E fail \in {"none", "transfer"} :
        Graph_Step(fail, Graph_Recursion(vm, fail, Graph_Todo(vm)),
                   Graph_Recursion(vm, "none", Graph_Todo(vm)))
    /\ UNCHANGED <<program, call, registered, rs, ir>>

NextGraph ==
    \/ GraphCall
    \/ GraphBuild
    \/ GraphVisit
    \/ GraphRecurse

\* a call that has begun runs on: the code is sequential
SpecGraph ==
    InitGraph /\ [][NextGraph]_vars
        /\ WF_vars(GraphBuild) /\ WF_vars(GraphVisit)
        /\ WF_vars(GraphRecurse)

\* the functions registered for file f
GraphRegistrations(func, f) == {k \in 1..Len(func) : func[k] = <<f>>}

\* the call about to begin finds the flag of its AST set
CalledOnBuilt(s) ==
    s.pc = "build" /\ s.ast[TopCall(s).file].global_storage_built = 1

GraphAtMostOnce ==
    \A f \in Files : Cardinality(GraphRegistrations(vm.func, f)) <= 1

\* an import is followed, or the visitor runs, only with the flag set
GraphMarkedFirst ==
    \A k \in 1..Len(vm.stack) :
        (k < Len(vm.stack) \/ vm.pc # "build")
            => vm.ast[vm.stack[k].file].global_storage_built = 1

GraphLaterCall ==
    CalledOnBuilt(vm)
        => /\ vm'.lastret = [file |-> TopCall(vm).file, ret |-> 1]
           /\ vm'.func = vm.func
           /\ vm'.ast = vm.ast

\* C35: for every import graph, cycles and self-imports included, a call
\* of scoperesolver_BuildASTGlobalStorage returns; no file's declarations
\* are registered more than once; global_storage_built is set before an
\* import is followed; and a call on an AST whose flag is set returns 1
\* and registers nothing.
C35_ImportGraphTerminates ==
    /\ [](GraphAtMostOnce /\ GraphMarkedFirst /\ Len(vm.stack) <= 2)
    /\ [][GraphLaterCall]_vars
    /\ (vm.pc = "build") ~> (vm.pc = "returned")

\* the entry file and a file it imports import each other, the third file
\* imports itself; each is built once, and the call the third file makes
\* on itself has returned 1
C35_Witness ==
    /\ vm.pc = "recurse"
    /\ TopCall(vm).file = "imp2"
    /\ vm.lastret = [file |-> "imp2", ret |-> 1]
    /\ vm.ast["imp2"].defs[1].referenced_ast = "imp2"
    /\ vm.ast["entry"].defs[1].referenced_ast = "imp"
    /\ vm.ast["imp"].defs[1].referenced_ast = "entry"
    /\ \A f \in Files : Cardinality(GraphRegistrations(vm.func, f)) = 1

\* C36: whenever stack_ToSize reaches the assertion of line 124,
\* alloc_count > total_entries holds: no call of stack_ToSize is stopped by
\* it, whatever the sizes, the flag and the outcome of the allocations.
C36_ToSizeAssertionHolds == ~(vm.call.op = "ToSize" /\ vm.pc = "aborted")

---------------------------------------------------------------------------
(* The end of the instruction buffer: vmthread_RunFunction                 *)
(* (src/horse64/vmexec.c, 69-129 and 207-229) on a function whose buffer   *)
(* holds setconst instructions only, or nothing                            *)

\* instructions executed beyond the end of the buffer
MaxBeyond == 2

\* what a read of the type field at or beyond pend can give: the memory
\* there is not part of the buffer (for a function registered by
\* h64program_RegisterHorse64Function the buffer pointer is NULL), so the
\* read faults or yields any value, a tag of the enumeration or not
BeyondReads == {"fault", "outofrange"} \cup InstructionTags

\* the buffers of the functions: up to len setconst instructions of plain
\* values
SetconstOnlyStreams(len) ==
    UNION {[1..n -> {SetConst(slot, IntValue(7)) :
                        slot \in 0..(MaxSlots - 1)}] : n \in 0..len}

\* lines 78-84.  beyond: what the memory from pend on reads as; read: the
\* types read at or beyond pend so far
PendStart(slots, instructions, beyond) ==
    [pc |-> "entry", hasstack |-> TRUE, stack |-> slots,
     thread_heap |-> "thread", heap |-> "thread",
     pools |-> [q \in Pools |-> <<>>],
     instructions |-> instructions, p |-> 1, ret |-> 1,
     prev |-> [stack |-> slots, pools |-> [q \in Pools |-> <<>>],
               instructions |-> instructions],
     last |-> [done |-> FALSE, slot |-> 0, content |-> NoneValue],
     jumptable |-> Jumptable_Declared, target |-> NoTarget,
     beyond |-> beyond, read |-> <<>>]

InitPend ==
    /\ program = h64program_New
    /\ call = NoCall
    /\ registered = {}
    /\ failures = 0
    /\ rs = NoResolve
    /\ ir = NoIdentifiers
    /\ \E slots \in [1..MaxSlots -> InitialSlots],
          instructions \in SetconstOnlyStreams(MaxInstructions),
          beyond \in BeyondReads :
            vm = PendStart(slots, instructions, beyond)

\* p is at or beyond pend (lines 78-79)
AtOrBeyondPend(v) == v.p > Len(v.instructions)

\* goto *jumptable[((h64instructionany *)p)->type] (lines 128 and 229):
\* the type is read at p, wherever p is
DispatchAtP(v) ==
    IF ~AtOrBeyondPend(v)
    THEN {[v EXCEPT !.pc = "handler", !.target = target] :
            target \in GotoTargets(v.jumptable, v.instructions[v.p].type)}
    ELSE IF v.beyond = "fault"
    THEN {Crashed([v EXCEPT !.read = Append(@, v.beyond)])}
    ELSE IF v.beyond = "outofrange"
    THEN {[v EXCEPT !.pc = "handler", !.target = WildJump,
                    !.read = Append(@, v.beyond)]}
    ELSE {[v EXCEPT !.pc = "handler", !.target = target,
                    !.read = Append(@, v.beyond)] :
            target \in GotoTargets(v.jumptable, v.beyond)}

\* inst_setconst (lines 94-129) on the bytes at p: an instruction of the
\* buffer is executed; beyond the buffer the slot and the content are
\* whatever the memory holds, and the store faults or goes on
SetconstAtP(v) ==
    IF ~AtOrBeyondPend(v)
    THEN {inst_setconst(Snapshot(v), v.instructions[v.p], "none")}
    ELSE {Crashed(v), [v EXCEPT !.p = @ + 1]}

\* line 84 and lines 207-228
Pend_SetupInterpreter ==
    /\ vm.pc = "entry"
    /\ vm' = [vm EXCEPT !.pc = "dispatch",
                        !.jumptable = Jumptable_Assigned(@, 1)]
    /\ UNCHANGED <<program, call, registered, failures, rs, ir>>

\* lines 229 and 128
Pend_Dispatch ==
    /\ vm.pc = "dispatch"
    /\ vm.p <= Len(vm.instructions) + MaxBeyond
    /\ vm' \in DispatchAtP(vm)
    /\ UNCHANGED <<program, call, registered, failures, rs, ir>>

\* lines 94-129
Pend_Setconst ==
    /\ vm.pc = "handler"
    /\ vm.target = Handler("SETCONST")
    /\ \E next \in SetconstAtP(vm) :
        vm' = IF next.pc = "handler"
              THEN [next EXCEPT !.pc = "dispatch", !.target = NoTarget]
              ELSE next
    /\ UNCHANGED <<program, call, registered, failures, rs, ir>>

\* lines 85-88 and 130-205: inst_invalid and the handlers without
\* implementation return 0
Pend_NotImplemented ==
    /\ vm.pc = "handler"
    /\ vm.target.kind = "label"
    /\ vm.target # Handler("SETCONST")
    /\ vm' = [vm EXCEPT !.pc = "returned", !.ret = 0]
    /\ UNCHANGED <<program, call, registered, failures, rs, ir>>

\* a jump through a value that is no label of the function
Pend_WildJump ==
    /\ vm.pc = "handler"
    /\ vm.target = WildJump
    /\ vm' = Crashed(vm)
    /\ UNCHANGED <<program, call, registered, failures, rs, ir>>

NextPend ==
    \/ Pend_SetupInterpreter
    \/ Pend_Dispatch
    \/ Pend_Setconst
    \/ Pend_NotImplemented
    \/ Pend_WildJump

SpecPend == InitPend /\ [][NextPend]_vars

\* C37: vmthread_RunFunction reads no instruction type at or beyond pend:
\* on a buffer that is empty or holds setconst instructions only, the
\* execution stops at the end of the buffer and the call returns.
C37_StopsAtPend == vm.read = <<>> /\ vm.pc # "crashed"

\* C40: every memmove of filesys_Normalize reads and writes only within
\* the strlen(path) + 1 bytes of the working copy: no call runs over the
\* end of the allocation, paths with a "/./" component included.
C40_MemmoveInBounds == ~(vm.pc = "normalized" /\ vm.ret = "fault")

---------------------------------------------------------------------------
(* filesys_FolderContainsPath (filesys.c 1391-1420) *)

\* largest number of components of a path handed to
\* filesys_FolderContainsPath
MaxContainComponents == 2

\* a NULL pointer in place of a path
NullPath == <<"(null)">>

\* the paths of a call: NULL, absolute paths of up to n components, and
\* a folder and a file in different folders
ContainPaths(n) ==
    {NullPath, Chars("/abc"), Chars("/xyz/def")} \cup AbsolutePaths(n)

\* lines 1395-1419, with the outcomes f and c of the two calls of
\* filesys_Normalize.  result: the value of *result after the call,
\* "unset" when the call did not store into it
filesys_FolderContainsPath(folder_path, check_path, f, c) ==
    IF folder_path = NullPath \/ check_path = NullPath
    THEN [pc |-> "contained", ret |-> 0, result |-> "unset"]
    ELSE IF f.ret = "fault" \/ c.ret = "fault"
    THEN [pc |-> "crashed", ret |-> -1, result |-> "unset"]
    ELSE IF f.ret = "null" \/ c.ret = "null"
    THEN [pc |-> "contained", ret |-> 0, result |-> "unset"]
    ELSE IF /\ Len(f.result) < Len(c.result)
            /\ Ch(c.result, Len(f.result)) = "/"
    THEN [pc |-> "contained", ret |-> 1, result |-> "1"]
    ELSE [pc |-> "contained", ret |-> 1, result |-> "0"]

ContainStart(folder_path, check_path) ==
    [pc |-> "paths", folder_path |-> folder_path,
     check_path |-> check_path, ret |-> -1, result |-> "unset",
     fnormalized |-> <<>>, checknormalized |-> <<>>]

InitContain ==
    /\ program = h64program_New
    /\ call = NoCall
    /\ registered = {}
    /\ failures = 0
    /\ rs = NoResolve
    /\ ir = NoIdentifiers
    /\ \E folder_path \in ContainPaths(MaxContainComponents),
          check_path \in ContainPaths(MaxContainComponents) :
            vm = ContainStart(folder_path, check_path)

\* the state after the call gave r
FolderContainsPath_Returns(v, f, c, r) ==
    [v EXCEPT !.pc = r.pc, !.ret = r.ret, !.result = r.result,
              !.fnormalized = IF r.ret = 1 THEN f.result ELSE <<>>,
              !.checknormalized = IF r.ret = 1 THEN c.result ELSE <<>>]

\* a call of filesys_FolderContainsPath
FolderContainsPath ==
    /\ vm.pc = "paths"
    /\ \E f \in NormalizeOutcomes(vm.folder_path),
          c \in NormalizeOutcomes(vm.check_path) :
        vm' = FolderContainsPath_Returns(
                  vm, f, c,
                  filesys_FolderContainsPath(
                      vm.folder_path, vm.check_path, f, c))
    /\ UNCHANGED <<program, call, registered, failures, rs, ir>>

\* filesys_Normalize on one of the paths alone
Contain_Normalize ==
    /\ vm.pc = "paths"
    /\ \E which \in {"folder_path", "check_path"} :
        /\ vm[which] # NullPath
        /\ \E r \in NormalizeOutcomes(vm[which]) :
            vm' = [vm EXCEPT
                    !.pc = "normalized", !.ret = IF r.ret = "ok" THEN 1
                                                 ELSE 0,
                    !.fnormalized = IF which = "folder_path"
                                    THEN r.result ELSE <<>>,
                    !.checknormalized = IF which = "check_path"
                                        THEN r.result ELSE <<>>]
    /\ UNCHANGED <<program, call, registered, failures, rs, ir>>

NextContain ==
    \/ FolderContainsPath
    \/ Contain_Normalize

SpecContain == InitContain /\ [][NextContain]_vars

\* the path check lies inside the folder: the folder path is a prefix of
\* it, and a separator follows the prefix
LiesInside(folder, check) ==
    /\ IsProperPrefix(folder, check)
    /\ check[Len(folder) + 1] = "/"

\* C38: filesys_FolderContainsPath sets *result = 1 only if the normalized
\* folder path is a prefix of the normalized check path and a separator
\* follows it there; for paths without a common prefix it sets 0.
C38_ContainsOnlyInside ==
    (vm.pc = "contained" /\ vm.ret = 1 /\ vm.result = "1")
        => LiesInside(vm.fnormalized, vm.checknormalized)

=============================================================================
